---------------------------- MODULE Spec2Model ----------------------------
(***************************************************************************)
(* LanShare file-transfer engine: the HTTP server's request handlers       *)
(* (src/network/server.py) and the retrying download client                *)
(* (src/network/client.py).                                                *)
(*                                                                         *)
(* Conventions.  An optional value (a Python None or a value) is a         *)
(* sequence of length 0 or 1.  A POSIX path string is the sequence of the  *)
(* segments between its "/" separators, i.e. str.split("/"): "" is <<"">>, *)
(* "/a" is <<"", "a">>, "a/../b" is <<"a", "..", "b">>.  File contents are *)
(* sequences of bytes.  Paths follow posixpath (os.path on Linux).         *)
(***************************************************************************)
EXTENDS Integers, Sequences, FiniteSets, TLC

(* ------------------------------ bounds -------------------------------- *)
\* longest request path, in segments
MaxSegs == 3
\* largest shared file, in bytes
MaxFileSize == 3
\* largest modification time of the shared file, in half seconds
MaxMtime == 2

None == <<>>
Some(v) == <<v>>

(* ------------------------------ paths --------------------------------- *)
\* the segment names requests are built from; "a" is the shared file
Segments == {"", ".", "..", "a", "..a"}

Paths == UNION {[1..n -> Segments] : n \in 1..MaxSegs}

\* str.startswith("/")
StartsWithSep(p) == Len(p) >= 2 /\ p[1] = ""

\* str.startswith("..") decided on the first segment of the string
StartsWithDotDot(p) == p[1] \in {"..", "..a"}

\* posixpath.normpath: the count of leading slashes it keeps (0, 1 or 2)
InitialSlashes(p) ==
    IF ~StartsWithSep(p) THEN 0
    ELSE IF Len(p) >= 3 /\ p[2] = "" /\ ~(Len(p) >= 4 /\ p[3] = "") THEN 2
    ELSE 1

\* posixpath.normpath: the loop over the components
RECURSIVE NormComps(_, _, _)
NormComps(comps, new_comps, slashes) ==
    IF comps = <<>> THEN new_comps
    ELSE LET comp == Head(comps)
             rest == Tail(comps)
             n    == Len(new_comps)
         IN  IF comp \in {"", "."} THEN NormComps(rest, new_comps, slashes)
             ELSE IF \/ comp # ".."
                     \/ (slashes = 0 /\ n = 0)
                     \/ (n > 0 /\ new_comps[n] = "..")
                  THEN NormComps(rest, Append(new_comps, comp), slashes)
             ELSE IF n > 0 THEN NormComps(rest, SubSeq(new_comps, 1, n - 1), slashes)
             ELSE NormComps(rest, new_comps, slashes)

\* os.path.normpath(filepath)
normpath(p) ==
    IF p = <<"">> THEN <<".">>
    ELSE LET slashes == InitialSlashes(p)
             comps   == NormComps(p, <<>>, slashes)
         IN  IF slashes > 0
             THEN [i \in 1..slashes |-> ""] \o (IF comps = <<>> THEN <<"">> ELSE comps)
             ELSE IF comps = <<>> THEN <<".">> ELSE comps

\* os.path.isabs(safe_path)
isabs(p) == StartsWithSep(p)

\* the path check applied to the path as received, not normalized
PathRejectedRaw(filepath) ==
    StartsWithDotDot(filepath) \/ isabs(filepath)

\* the path check without its test for an absolute path
PathRejectedNoAbs(filepath) ==
    StartsWithDotDot(normpath(filepath))

\* lines 208-209 of _handle_download_file: TRUE when the request is refused
PathRejected(filepath) ==
    LET safe_path == normpath(filepath)
    IN  StartsWithDotDot(safe_path) \/ isabs(safe_path)

\* os.path.join(base_dir, safe_path): an absolute second argument replaces base_dir
JoinBase(safe_path) ==
    IF isabs(safe_path) THEN [anchor |-> "/", segs |-> Tail(safe_path)]
    ELSE [anchor |-> "base_dir", segs |-> safe_path]

(* --------------------------- the file system --------------------------- *)
Outside == <<"<outside>">>

\* the kernel's walk of a path from the shared root: the names below the root
\* it ends at, or Outside once it steps above the root
RECURSIVE Walk(_, _)
Walk(segs, at) ==
    IF segs = <<>> THEN at
    ELSE LET s == Head(segs)
         IN  IF s \in {"", "."} THEN Walk(Tail(segs), at)
             ELSE IF s = ".."
                  THEN IF at = <<>> THEN Outside
                       ELSE Walk(Tail(segs), SubSeq(at, 1, Len(at) - 1))
             ELSE Walk(Tail(segs), Append(at, s))

\* where a full path leads
Locate(full) == IF full.anchor = "/" THEN Outside ELSE Walk(full.segs, <<>>)

InsideRoot(full) == Locate(full) # Outside

\* the regular files of the shared root: "a" and "..a", with the same bytes
SharedFiles == {<<"a">>, <<"..a">>}

\* os.path.isfile(full_path)
isfile(full) == Locate(full) \in SharedFiles


(* ------------------------ the shared file "a" ------------------------- *)
Min(a, b) == IF a < b THEN a ELSE b

\* a file of n bytes; byte i has the value i, so a byte misplaced shows
Content(n) == [i \in 1..n |-> i]

\* stand-in for the 1 MB read size of _stream_file_range
ServerChunk == 2
\* stand-in for the 50 MB threshold above which the memory-mapped path is used
MmapThreshold == 2
\* stand-in for the 2 MB slice size of _stream_large_file_range
MmapChunk == 2

\* f.seek(pos); f.read(n)
ReadAt(content, pos, n) ==
    IF pos >= Len(content) \/ n <= 0 THEN <<>>
    ELSE SubSeq(content, pos + 1, Min(pos + n, Len(content)))

\* the read loop of _stream_file_range
RECURSIVE StreamLoop(_, _, _, _, _)
StreamLoop(content, pos, remaining, chunk_size, out) ==
    IF remaining <= 0 THEN out
    ELSE LET size  == Min(chunk_size, remaining)
             chunk == ReadAt(content, pos, size)
         IN  IF chunk = <<>> THEN out
             ELSE StreamLoop(content, pos + Len(chunk), remaining - Len(chunk),
                             size, out \o chunk)

\* _stream_file_range counting end_byte - start_byte bytes, one too few
StreamFileRangeShort(content, start_byte, end_byte) ==
    StreamLoop(content, start_byte, end_byte - start_byte,
               Min(ServerChunk, end_byte - start_byte), <<>>)

\* _stream_file_range: the bytes written to the socket
StreamFileRange(content, start_byte, end_byte) ==
    StreamLoop(content, start_byte, end_byte - start_byte + 1,
               Min(ServerChunk, end_byte - start_byte + 1), <<>>)

\* the slice loop of _stream_large_file_range; a Python slice is clamped to the map
RECURSIVE MmapLoop(_, _, _, _, _)
MmapLoop(content, offset, remaining, chunk_size, out) ==
    IF remaining <= 0 THEN out
    ELSE LET size == Min(chunk_size, remaining)
         IN  MmapLoop(content, offset + size, remaining - size, size,
                      out \o ReadAt(content, offset, size))

\* _stream_large_file_range with the mapping available
StreamLargeFileRange(content, start_byte, end_byte) ==
    MmapLoop(content, start_byte, end_byte - start_byte + 1, MmapChunk, <<>>)

\* the dispatch of lines 265-269
StreamBody(content, start_byte, end_byte) ==
    IF Len(content) > MmapThreshold
    THEN StreamLargeFileRange(content, start_byte, end_byte)
    ELSE StreamFileRange(content, start_byte, end_byte)

\* the ways the memory-mapped path fails: "mmap_value", mmap.mmap raises
\* ValueError; "mmap_os", mmap.mmap raises OSError (mmap.error); "mmap_slice",
\* the second slice of the map raises MemoryError
MmapFaults == {"mmap_value", "mmap_os", "mmap_slice"}

\* _stream_large_file_range under a fault of the mapped path: the except
\* clause catches ValueError and MemoryError and calls _stream_file_range for
\* the whole range, after whatever the slice loop has written
MmapOutcome(content, start_byte, end_byte, fault) ==
    LET remaining == end_byte - start_byte + 1
        first     == ReadAt(content, start_byte, Min(MmapChunk, remaining))
    IN  IF fault = "mmap_os" THEN [body |-> <<>>, raised |-> TRUE]
        ELSE IF fault = "mmap_slice"
             THEN IF remaining > MmapChunk
                  THEN [body   |-> first \o StreamFileRange(content, start_byte, end_byte),
                        raised |-> FALSE]
                  ELSE [body   |-> StreamLargeFileRange(content, start_byte, end_byte),
                        raised |-> FALSE]
        ELSE [body |-> StreamFileRange(content, start_byte, end_byte), raised |-> FALSE]

\* What the streaming call of lines 265-269 writes, and whether it raises.
\* Fault "open" makes open(file_path, 'rb') raise; fault "read" makes the
\* second f.read of _stream_file_range raise (the memory-mapped path has no
\* read call); the faults of MmapFaults strike the memory-mapped path.
StreamOutcome(content, start_byte, end_byte, fault) ==
    LET remaining == end_byte - start_byte + 1
        first     == ReadAt(content, start_byte, Min(ServerChunk, remaining))
    IN  IF fault = "open" THEN [body |-> <<>>, raised |-> TRUE]
        ELSE IF /\ fault = "read"
                /\ Len(content) <= MmapThreshold
                /\ first # <<>>
                /\ remaining - Len(first) > 0
             THEN [body |-> first, raised |-> TRUE]
        ELSE IF fault \in MmapFaults /\ Len(content) > MmapThreshold
             THEN MmapOutcome(content, start_byte, end_byte, fault)
        ELSE [body |-> StreamBody(content, start_byte, end_byte), raised |-> FALSE]

\* stand-in for the length of the response send_error writes
ErrorPageSize == 2

\* the bytes of send_error(code, ...): a status line, headers and an HTML
\* page; none of them is a byte of the file (file bytes are positive)
ErrorPage(code) == [i \in 1..ErrorPageSize |-> 0 - code]

\* int(file_mtime): modification times are counted in half seconds
IntMtime(mtime) == mtime \div 2

\* f'"{file_size}-{int(file_mtime)}"'
FileETag(file) == [kind |-> "file", size |-> Len(file.content), mtime |-> IntMtime(file.mtime)]

(* --------------------------- request headers --------------------------- *)
\* a Range header: unit "bytes" or another; start and end are optional numbers
RangeValues ==
    [unit : {"bytes", "items"}, start : {None} \cup {Some(n) : n \in 0..MaxFileSize + 1},
     end : {None} \cup {Some(n) : n \in 0..MaxFileSize + 1}]

\* a range test that accepts any unit
RangeMatchAnyUnit(h) == h.start # None

\* re.match(r'bytes=(\d+)-(\d*)', range_header)
RangeMatch(h) == h.unit = "bytes" /\ h.start # None

NoHeaders == [range |-> None, if_none_match |-> None]

(* ---------------------- _handle_download_file -------------------------- *)
ErrorResponse(code, log) ==
    [status |-> code, etag |-> None, content_range |-> None, content_length |-> None,
     body |-> <<>>, error_page |-> TRUE, late_error |-> None, log |-> log]

\* lines 236-272: the range, the headers, the body, and the handler's
\* `except Exception` around all of it: an exception raised while streaming
\* reaches send_error(500), which writes into the response already begun
RangeResponse(file, headers, full_path, log, fault) ==
    LET file_size == Len(file.content)
        honored   == headers.range # None /\ RangeMatch(headers.range[1])
        h         == headers.range[1]
        start     == IF honored THEN h.start[1] ELSE 0
        end       == IF honored /\ h.end # None THEN h.end[1] ELSE file_size - 1
        streamed  == StreamOutcome(file.content, start, end, fault)
    IN  [status         |-> IF honored THEN 206 ELSE 200,
         etag           |-> Some(FileETag(file)),
         content_range  |-> IF honored
                            THEN Some([start |-> start, end |-> end, size |-> file_size])
                            ELSE None,
         content_length |-> Some(end - start + 1),
         body           |-> IF streamed.raised THEN streamed.body \o ErrorPage(500)
                            ELSE streamed.body,
         error_page     |-> FALSE,
         late_error     |-> IF streamed.raised THEN Some(500) ELSE None,
         log            |-> log \o <<[op |-> "open", path |-> full_path]>>]

\* a not-modified test that any presented token passes
NotModifiedAnyToken(headers, etag) == headers.if_none_match # None

\* lines 224-234 (and 170-179): the not-modified test
NotModified(headers, etag) == headers.if_none_match = Some(etag)

\* _handle_download_file(filepath) for the shared file `file`; fault "stat"
\* makes os.stat raise, faults "open" and "read" strike while streaming
HandleDownloadFile(filepath, headers, file, fault) ==
    LET safe_path == normpath(filepath)
        full_path == JoinBase(safe_path)
        probe     == <<[op |-> "isfile", path |-> full_path]>>
        stat      == probe \o <<[op |-> "stat", path |-> full_path]>>
    IN  IF PathRejected(filepath) THEN ErrorResponse(403, <<>>)
        ELSE IF ~isfile(full_path) THEN ErrorResponse(404, probe)
        ELSE IF fault = "stat" THEN ErrorResponse(500, stat)
        ELSE IF NotModified(headers, FileETag(file))
             THEN [status |-> 304, etag |-> Some(FileETag(file)), content_range |-> None,
                   content_length |-> None, body |-> <<>>, error_page |-> FALSE,
                   late_error |-> None, log |-> stat]
        ELSE RangeResponse(file, headers, full_path, stat, fault)

(* ------------------------- the directory index ------------------------- *)
\* A node of a tree is what rglob yields: `parts` are the components of its
\* path relative to the root (file names), `readable` tells whether is_file /
\* is_dir / stat succeed on it (they raise PermissionError for the children
\* of a directory without search permission).
\*
\* The file names of the model.  On POSIX a name may hold a backslash: the
\* name "D\\a" is one component.
Names == {"D", "a", "s", "..a", "D\\a"}

\* name.split("\\"): the pieces of a name between its backslashes
SplitBackslash(name) == IF name = "D\\a" THEN <<"D", "a">> ELSE <<name>>

\* str(rel_path).replace("\\", "/"), as the segments of the resulting string:
\* the components joined by "/" and every backslash turned into "/"
RECURSIVE ReplacedPath(_)
ReplacedPath(parts) ==
    IF parts = <<>> THEN <<>>
    ELSE SplitBackslash(Head(parts)) \o ReplacedPath(Tail(parts))

\* file_path.suffix.lower()
Suffix(name) == IF name = "..a" THEN ".a" ELSE ""

\* lines 84-103: the entry appended for a node
EntryOf(node) ==
    IF node.type = "file"
    THEN [name |-> node.parts[Len(node.parts)], path |-> ReplacedPath(node.parts),
          type |-> "file", size |-> node.size, modified |-> node.modified,
          extension |-> Suffix(node.parts[Len(node.parts)])]
    ELSE [name |-> node.parts[Len(node.parts)], path |-> ReplacedPath(node.parts),
          type |-> "folder", size |-> 0, modified |-> node.modified]

FileNode(parts, size, modified) ==
    [parts |-> parts, type |-> "file", size |-> size, modified |-> modified,
     readable |-> TRUE]

FolderNode(parts, modified) ==
    [parts |-> parts, type |-> "folder", size |-> 0, modified |-> modified,
     readable |-> TRUE]

\* the nodes beneath the shared root of the download handler: the folder "D"
\* and the two files
TreeOf(file) ==
    { FolderNode(<<"D">>, 0),
      FileNode(<<"a">>, Len(file.content), file.mtime),
      FileNode(<<"..a">>, Len(file.content), file.mtime) }

\* the orders in which rglob may yield the nodes of a tree
WalkOrders(nodes) ==
    {w \in [1..Cardinality(nodes) -> nodes] : \A i, j \in DOMAIN w : w[i] = w[j] => i = j}

\* the rank of a lowered segment among the lowered segments, in string order:
\* "." < "/" < "a" < "d" < "s"
LowerRank(segment) ==
    CASE segment = "..a" -> 1
      [] segment = "a"   -> 2
      [] segment = "D"   -> 3
      [] segment = "s"   -> 4

\* p.lower() < q.lower() for path strings: "/" sorts before every letter and
\* the letter segments are one character long, so the strings compare as
\* their segment sequences do
RECURSIVE PathLess(_, _)
PathLess(p, q) ==
    IF q = <<>> THEN FALSE
    ELSE IF p = <<>> THEN TRUE
    ELSE IF LowerRank(Head(p)) # LowerRank(Head(q))
         THEN LowerRank(Head(p)) < LowerRank(Head(q))
    ELSE PathLess(Tail(p), Tail(q))

\* the sort key (x['type'] == 'file', x['path'].lower()) compared as tuples
KeyLess(x, y) ==
    LET fx == IF x.type = "file" THEN 1 ELSE 0
        fy == IF y.type = "file" THEN 1 ELSE 0
    IN  fx < fy \/ (fx = fy /\ PathLess(x.path, y.path))

\* list.sort(key=...), a stable sort: insert e after every entry not greater
RECURSIVE InsertSorted(_, _)
InsertSorted(sorted, e) ==
    IF sorted = <<>> THEN <<e>>
    ELSE IF KeyLess(e, Head(sorted)) THEN <<e>> \o sorted
    ELSE <<Head(sorted)>> \o InsertSorted(Tail(sorted), e)

RECURSIVE SortEntries(_, _)
SortEntries(entries, sorted) ==
    IF entries = <<>> THEN sorted
    ELSE SortEntries(Tail(entries), InsertSorted(sorted, Head(entries)))

\* lines 82-106: the loop over what rglob yields; a node on which is_file or
\* stat raises is skipped
RECURSIVE CollectEntries(_)
CollectEntries(walk) ==
    IF walk = <<>> THEN <<>>
    ELSE IF Head(walk).readable THEN <<EntryOf(Head(walk))>> \o CollectEntries(Tail(walk))
    ELSE CollectEntries(Tail(walk))

\* lines 116-145, _build_file_list_fallback: os.walk yields no directory it
\* cannot scan; a file whose size cannot be read is listed with size 0; the
\* entries have four fields and are not sorted
RECURSIVE BuildFileListFallback(_)
BuildFileListFallback(walk) ==
    IF walk = <<>> THEN <<>>
    ELSE LET node == Head(walk)
             name == node.parts[Len(node.parts)]
             path == ReplacedPath(node.parts)
         IN  (IF node.type = "file"
              THEN <<[name |-> name, path |-> path, type |-> "file",
                      size |-> IF node.readable THEN node.size ELSE 0]>>
              ELSE IF node.readable
              THEN <<[name |-> name, path |-> path, type |-> "folder", size |-> 0]>>
              ELSE <<>>)
             \o BuildFileListFallback(Tail(walk))

\* _build_file_list over the nodes in the order rglob yields them; rglob_ok
\* is FALSE when the iteration itself raises, which selects the fallback
BuildFileList(walk, rglob_ok) ==
    IF rglob_ok THEN SortEntries(CollectEntries(walk), <<>>)
    ELSE BuildFileListFallback(walk)

\* _cache_ttl, seconds
CacheTTL == 120
\* the cache keeps at most this many roots
CacheKeep == 5

\* position of base_dir's snapshot in _dir_cache (a dict, in insertion order), or 0
CacheIndex(cache, key) ==
    IF \E i \in DOMAIN cache : cache[i].key = key
    THEN CHOOSE i \in DOMAIN cache : cache[i].key = key
    ELSE 0

\* an eviction that picks the snapshot inserted first, whatever its timestamp
FirstInsertedIndex(cache) == 1

\* min(self._dir_cache.keys(), key=timestamp): the first key of the least timestamp
OldestIndex(cache) ==
    CHOOSE i \in DOMAIN cache :
        /\ \A j \in DOMAIN cache : cache[i].timestamp <= cache[j].timestamp
        /\ \A j \in 1..(i - 1) : cache[j].timestamp > cache[i].timestamp

RemoveAt(seq, i) == SubSeq(seq, 1, i - 1) \o SubSeq(seq, i + 1, Len(seq))

\* a lookup that still counts a snapshot aged exactly the TTL as fresh
GetCachedFileListInclusiveTTL(cache, key, now, dir_mtime, walk, rglob_ok) ==
    LET i == CacheIndex(cache, key)
    IN  IF i # 0 /\ now - cache[i].timestamp <= CacheTTL
        THEN [cache |-> [cache EXCEPT ![i].hits = @ + 1], data |-> cache[i].data,
              built |-> FALSE]
        ELSE IF i # 0 /\ dir_mtime # None /\ cache[i].dir_mtime = dir_mtime[1]
        THEN [cache |-> [cache EXCEPT ![i].timestamp = now], data |-> cache[i].data,
              built |-> FALSE]
        ELSE LET file_list == BuildFileList(walk, rglob_ok)
                 entry == [key |-> key, data |-> file_list, timestamp |-> now,
                           dir_mtime |-> IF dir_mtime # None THEN dir_mtime[1] ELSE now,
                           hits |-> 0, size |-> Len(file_list)]
                 put   == IF i # 0 THEN [cache EXCEPT ![i] = entry]
                          ELSE Append(cache, entry)
                 kept  == IF Len(put) > CacheKeep THEN RemoveAt(put, OldestIndex(put))
                          ELSE put
             IN  [cache |-> kept, data |-> file_list, built |-> TRUE]

\* _get_cached_file_list(base_dir) at time `now`; dir_mtime is None when
\* os.path.getmtime raises; walk and rglob_ok are what a rebuild would meet.
\* Gives the cache afterwards and the list returned.
GetCachedFileList(cache, key, now, dir_mtime, walk, rglob_ok) ==
    LET i == CacheIndex(cache, key)
    IN  IF i # 0 /\ now - cache[i].timestamp < CacheTTL
        THEN [cache |-> [cache EXCEPT ![i].hits = @ + 1], data |-> cache[i].data,
              built |-> FALSE]
        ELSE IF i # 0 /\ dir_mtime # None /\ cache[i].dir_mtime = dir_mtime[1]
        THEN [cache |-> [cache EXCEPT ![i].timestamp = now], data |-> cache[i].data,
              built |-> FALSE]
        ELSE LET file_list == BuildFileList(walk, rglob_ok)
                 entry == [key |-> key, data |-> file_list, timestamp |-> now,
                           dir_mtime |-> IF dir_mtime # None THEN dir_mtime[1] ELSE now,
                           hits |-> 0, size |-> Len(file_list)]
                 put   == IF i # 0 THEN [cache EXCEPT ![i] = entry]
                          ELSE Append(cache, entry)
                 kept  == IF Len(put) > CacheKeep THEN RemoveAt(put, OldestIndex(put))
                          ELSE put
             IN  [cache |-> kept, data |-> file_list, built |-> TRUE]

(* -------------------------- _handle_file_list -------------------------- *)
\* the decimal digits of a natural number
RECURSIVE Digits(_)
Digits(n) == IF n < 10 THEN 1 ELSE 1 + Digits(n \div 10)

\* the length json.dumps gives a name: its characters, a backslash written twice
EscapedLen(name) == Len(name) + Len(SplitBackslash(name)) - 1

\* the length of a path string: its segments and the "/" between them
RECURSIVE PathLen(_)
PathLen(path) ==
    IF path = <<>> THEN 0
    ELSE IF Len(path) = 1 THEN Len(Head(path))
    ELSE Len(Head(path)) + 1 + PathLen(Tail(path))

\* the length of a modification time as json.dumps prints the float: whole
\* part, point, one digit
FloatLen(modified) == Digits(modified) + 2

\* the length of one entry, separators (',', ':'):
\*   {"name":"N","path":"P","size":S,"modified":M,"type":"file","extension":"E"}
\*   {"name":"N","path":"P","type":"folder","size":0,"modified":M}
EntryJsonLen(e) ==
    IF e.type = "file"
    THEN 70 + EscapedLen(e.name) + PathLen(e.path) + Digits(e.size)
            + FloatLen(e.modified) + Len(e.extension)
    ELSE 58 + EscapedLen(e.name) + PathLen(e.path) + FloatLen(e.modified)

\* the length of the array: brackets, entries, commas
RECURSIVE JsonLen(_)
JsonLen(file_list) ==
    IF file_list = <<>> THEN 2
    ELSE IF Len(file_list) = 1 THEN 2 + EntryJsonLen(file_list[1])
    ELSE EntryJsonLen(Head(file_list)) + 1 + JsonLen(Tail(file_list))

\* json.dumps(file_list, separators=(',', ':')).encode('utf-8'): the bytes,
\* told apart by the list they encode, and their number
JsonDumps(file_list) == [kind |-> "json", of |-> file_list, len |-> JsonLen(file_list)]

\* hashlib.md5(response_data).hexdigest()
ListETag(response_data) == [kind |-> "md5", of |-> response_data]

\* len(response_data) > 1024
CompressThreshold == 1024

\* gzip.compress(response_data, compresslevel=6) returning `size` bytes
GzipCompress(response_data, size) == [kind |-> "gzip", of |-> response_data, len |-> size]

\* a handler that takes the compressed bytes also when they are exactly 90%
UseCompressedInclusive(response_data, gzip) ==
    /\ response_data.len > CompressThreshold
    /\ gzip # None
    /\ 10 * gzip[1] <= 9 * response_data.len

\* lines 182-197: the compressed bytes replace the JSON.  `gzip` is what
\* gzip.compress does when called: None when it raises, else the size of its
\* result.  len(compressed_data) < len(response_data) * 0.9 in floating point
\* decides as 10 * compressed < 9 * original does for every length below 2 MB.
UseCompressed(response_data, gzip) ==
    /\ response_data.len > CompressThreshold
    /\ gzip # None
    /\ 10 * gzip[1] < 9 * response_data.len

\* lines 167-203 for the list `file_list` the cache returned
ListResponse(file_list, headers, gzip) ==
    LET response_data == JsonDumps(file_list)
        etag          == ListETag(response_data)
        sent          == IF UseCompressed(response_data, gzip)
                         THEN GzipCompress(response_data, gzip[1])
                         ELSE response_data
    IN  IF NotModified(headers, etag)
        THEN [status |-> 304, etag |-> Some(etag), content_range |-> None,
              content_encoding |-> None, content_length |-> None, body |-> <<>>,
              error_page |-> FALSE, late_error |-> None, log |-> <<>>]
        ELSE [status |-> 200, etag |-> Some(etag), content_range |-> None,
              content_encoding |-> IF UseCompressed(response_data, gzip)
                                   THEN Some("gzip") ELSE None,
              content_length |-> Some(sent.len), body |-> <<sent>>,
              error_page |-> FALSE, late_error |-> None, log |-> <<>>]

(* ------------------------------- do_GET -------------------------------- *)
\* A request target: the path before "?", and the query when there is one:
\* `leads` tells that the query string begins with "file=", `file` is the
\* non-blank value parse_qs gives for "file", if any.
\* urllib.parse.unquote(self.path) for the targets of the model
Unquote(path) ==
    CASE path = "/api%2Ffiles"        -> "/api/files"
      [] path = "/download%5Fall"     -> "/download_all"
      [] path = "/download%3Ffile=a"  -> "/download?file=a"
      [] OTHER                        -> path

\* path.startswith('/download?'), path the unquoted target
StartsWithDownloadQuery(target) ==
    \/ Unquote(target.path) = "/download" /\ target.query # None
    \/ Unquote(target.path) = "/download?file=a"

\* '?file=' in self.path, the target as received
HasFileQuery(target) == target.query # None /\ target.query[1].leads

\* a do_GET that sends only /download?... to the download handler
DispatchDownloadPathOnly(target) ==
    IF Unquote(target.path) = "/api/files" /\ target.query = None THEN "list"
    ELSE IF Unquote(target.path) = "/download_all" /\ target.query = None THEN "archive"
    ELSE IF StartsWithDownloadQuery(target) THEN "download"
    ELSE "static"

Dispatch(target) ==
    IF Unquote(target.path) = "/api/files" /\ target.query = None THEN "list"
    ELSE IF Unquote(target.path) = "/download_all" /\ target.query = None THEN "archive"
    ELSE IF StartsWithDownloadQuery(target) \/ HasFileQuery(target) THEN "download"
    ELSE "static"

\* params.get('file', [''])[0], the query being what follows the first "?"
\* of the target as received
FileParam(target) ==
    IF target.query = None \/ target.query[1].file = None
    THEN <<"">>
    ELSE target.query[1].file[1]

DownloadTarget(filepath) ==
    [path |-> "/download", query |-> Some([leads |-> TRUE, file |-> Some(filepath)])]

ListTarget == [path |-> "/api/files", query |-> None]

(* ------------------------------ the state ------------------------------ *)
VARIABLES
    shared,      \* the shared file "a": content, mtime, and the root's dir_mtime
    dir_cache,   \* LANShareRequestHandler._dir_cache, in insertion order
    now,         \* time.time(), seconds
    request,     \* the request the server handled last (None before the first)
    response,    \* and the response it gave
    \* HTTPClient.download_file
    localFile,   \* the bytes of the file at save_path (None: no such file)
    sidecar,     \* the content of save_path + '.etag' (None: no such file)
    call,        \* the arguments of the running or last call (None before the first)
    pc,          \* "idle", "attempt" (top of the while loop), "stream", "done"
    retry_count,
    stream,      \* while streaming: the bytes iter_content has yet to yield
    result,      \* what the last call returned (None while one runs)
    calls,       \* calls made so far
    before,      \* history: localFile when the call began
    attempts,    \* history: iterations of the while loop begun in this call
    connFailures,\* history: connection/timeout exceptions caught in this call
    lastError,   \* history: the exception the last attempt raised, if any
    sent,        \* history: the headers of the last request, and the local size then
    lastStatus,  \* history: the status of the last response received in this call
    xfer,        \* the locals of the attempt: resume_pos, total_size, downloaded
    progress,    \* history: the pair last passed to progress_callback in this call
    \* HTTPClient.download_files_parallel
    file_list,   \* the argument: a sequence of entries
    batch_size,  \* the argument
    max_workers, \* the computed worker count (None before it is computed)
    batch_start, \* the loop variable
    bpc,         \* "call", "loop", "pool" (inside the with block), "returned"
    submitted,   \* indices of files_to_download handed to the executor, not yet completed
    running,     \* those among them a worker is executing
    outcome,     \* history: per file index, how its download_single ended
    successful,
    failed,
    batch_result,\* the returned (flag, successful, failed), None before
    \* LANShareRequestHandler._handle_download_all
    platform,    \* os.name of the host: "posix" or "nt"
    tmp_files,   \* the temporary archives that exist, named by their request's number
    hpc,         \* "idle", "create", "build", "headers", "stream", "exited"
    zip_req,     \* the number of the request being handled (0 before the first)
    zip_out,     \* what the handler has sent for it, and how it left
    \* LANShareRequestHandler._get_cached_file_list over changing trees
    tree,        \* the tree under base_dir: its nodes, the root's mtime, and (history)
                 \* the time of the last change anywhere in it
    built_at,    \* history: for each cached root, the time its snapshot's data was built
    index_call,  \* history: the last call: root, time, cache before, list returned, walked
    ref_list,    \* history: the list the first call since the last change returned
    \* the handler threads of the server
    threads,     \* for each handler thread: where it is, and its locals
    lock,        \* LANShareRequestHandler._cache_lock: the thread holding it (0: free)
    walks,       \* history: the tree walks begun, and by whom
    conns,       \* OptimizedThreadedHTTPServer: connections waiting and being handled
    \* HTTPClient._connection_cache
    connection_cache, \* for each endpoint key: its record (None: no record)
    \* HTTPServerManager
    manager,     \* httpd, server_thread, is_running, and what the last call returned
    servers      \* the server objects created: socket, serve_forever loop, handlers

serverVars == <<shared, dir_cache, now, request, response>>

clientVars == <<localFile, sidecar, call, pc, retry_count, stream, result, calls,
                before, attempts, connFailures, lastError, sent, lastStatus, xfer,
                progress>>

batchVars == <<file_list, batch_size, max_workers, batch_start, bpc, submitted, running,
               outcome, successful, failed, batch_result>>

zipVars == <<platform, tmp_files, hpc, zip_req, zip_out>>

indexVars == <<tree, built_at, index_call, ref_list>>

concVars == <<threads, lock, walks, conns>>

healthVars == <<connection_cache>>

managerVars == <<manager, servers>>

vars == <<serverVars, clientVars, batchVars, zipVars, indexVars, concVars, healthVars,
          managerVars>>

\* no client is running
ClientUnused ==
    /\ localFile = None /\ sidecar = None /\ call = None /\ pc = "idle"
    /\ retry_count = 0 /\ stream = <<>> /\ result = None /\ calls = 0
    /\ before = None /\ attempts = 0 /\ connFailures = 0 /\ lastError = None
    /\ sent = None /\ lastStatus = None /\ xfer = None /\ progress = None

\* no endpoint has been listed
HealthUnused == connection_cache = <<>>

\* no server manager has been constructed
ManagerUnused == manager = <<>> /\ servers = <<>>

\* no batch download is running
BatchUnused ==
    /\ file_list = <<>> /\ batch_size = 0 /\ max_workers = None /\ batch_start = 0
    /\ bpc = "returned" /\ submitted = {} /\ running = {} /\ outcome = <<>>
    /\ successful = 0 /\ failed = 0 /\ batch_result = None

\* no archive request is being handled
ZipUnused ==
    /\ platform = "posix" /\ tmp_files = {} /\ hpc = "idle" /\ zip_req = 0 /\ zip_out = None

\* the index is not exercised over a changing tree
IndexUnused ==
    /\ tree = None /\ built_at = <<>> /\ index_call = None /\ ref_list = None

\* one handler at a time, no server socket
ConcUnused ==
    /\ threads = <<>> /\ lock = 0 /\ walks = <<>> /\ conns = None

\* most cache hits counted per snapshot
MaxHits == 2

GzipSpread == 1

\* what gzip.compress may do with `len` bytes: raise, or return a byte
\* string; the sizes tried are a quarter of the input and the sizes about
\* 90% of it.  At or below the threshold the handler does not call it.
GzipOutcomes(len) ==
    IF len > CompressThreshold
    THEN {None} \cup {Some(c) : c \in {len \div 4}
                         \cup (((9 * len) \div 10) - GzipSpread)..(((9 * len) \div 10) + GzipSpread)}
    ELSE {None}

SharedStates ==
    [content : {Content(n) : n \in 0..MaxFileSize}, mtime : 0..MaxMtime, dir_mtime : {0}]

FileETags == {FileETag(f) : f \in SharedStates}

ListETags ==
    {ListETag(JsonDumps(BuildFileList(w, TRUE))) : w \in UNION {WalkOrders(TreeOf(f)) : f \in SharedStates}}

\* the download requests that probe the path check: every path, no headers
PathProbes ==
    [target : {DownloadTarget(p) : p \in Paths}, headers : {NoHeaders}, fault : {"none"}]

\* the download requests for "a" under every Range header, the memory-mapped
\* path failing or not
MmapProbes ==
    [target  : {DownloadTarget(<<"a">>)},
     headers : [range : {None} \cup {Some(h) : h \in RangeValues}, if_none_match : {None}],
     fault   : {"none"} \cup MmapFaults]

\* the download requests for "a" under every Range and If-None-Match header
HeaderProbes ==
    [target  : {DownloadTarget(<<"a">>)},
     headers : [range : {None} \cup {Some(h) : h \in RangeValues},
                if_none_match : {None} \cup {Some(t) : t \in FileETags}],
     fault   : {"none", "stat", "open", "read"}]

ListProbes ==
    [target  : {ListTarget},
     headers : [range : {None},
                if_none_match : {None} \cup {Some(t) : t \in ListETags \cup FileETags}],
     fault   : {"none", "getmtime"}]

\* a request has arrived and waits for its handler
ServerInit ==
    /\ shared \in SharedStates
    /\ dir_cache = <<>>
    /\ now = 0
    /\ request \in {Some(req) : req \in PathProbes \cup HeaderProbes \cup ListProbes}
    /\ response = None
    /\ ClientUnused
    /\ BatchUnused
    /\ ZipUnused /\ IndexUnused /\ ConcUnused /\ HealthUnused /\ ManagerUnused

\* do_GET dispatching to _handle_file_list
DoGetList ==
    /\ response = None
    /\ Dispatch(request[1].target) = "list"
    /\ \E walk \in WalkOrders(TreeOf(shared)) :
         LET req == request[1]
             dir_mtime == IF req.fault = "getmtime" THEN None ELSE Some(shared.dir_mtime)
             got == GetCachedFileList(dir_cache, "base_dir", now, dir_mtime, walk, TRUE)
         IN  /\ dir_cache' = got.cache
             /\ \E gzip \in GzipOutcomes(JsonLen(got.data)) :
                    response' = Some(ListResponse(got.data, req.headers, gzip))
    /\ UNCHANGED <<healthVars, managerVars, shared, now, request, clientVars, batchVars, zipVars, concVars, indexVars>>

\* do_GET dispatching to _handle_download_file
DoGetDownload ==
    /\ response = None
    /\ Dispatch(request[1].target) = "download"
    /\ response' = Some(HandleDownloadFile(FileParam(request[1].target),
                                           request[1].headers, shared, request[1].fault))
    /\ UNCHANGED <<healthVars, managerVars, shared, dir_cache, now, request, clientVars, batchVars, zipVars, concVars, indexVars>>

\* The next request arrives.  A download request reads nothing an earlier
\* request wrote, so the requests that follow another are listing requests.
Arrive(req) ==
    /\ response # None
    /\ LET i == CacheIndex(dir_cache, "base_dir")
       IN  i # 0 => dir_cache[i].hits < MaxHits
    /\ request' = Some(req)
    /\ response' = None
    /\ UNCHANGED <<healthVars, managerVars, shared, dir_cache, now, clientVars, batchVars, zipVars, concVars, indexVars>>

ServerNext ==
    \/ DoGetDownload
    \/ DoGetList
    \/ \E req \in ListProbes : Arrive(req)

SpecServer == ServerInit /\ [][ServerNext]_vars

(* ---------------------- properties of the server ----------------------- *)
Handled(endpoint) ==
    response # None /\ Dispatch(request[1].target) = endpoint

\* the path of the handled download request, as received
ReqPath == FileParam(request[1].target)

\* the path leaves the shared root when the kernel follows it from there
EscapesRoot(filepath) == isabs(filepath) \/ Walk(filepath, <<>>) = Outside

HasDotDotSegment(filepath) == \E i \in DOMAIN filepath : filepath[i] = ".."

Opened(r) == \E i \in DOMAIN r.log : r.log[i].op = "open"

\* download requests for a shared file of any size, the memory-mapped path
\* failing or not
MmapInit ==
    /\ shared \in SharedStates
    /\ dir_cache = <<>>
    /\ now = 0
    /\ request \in {Some(req) : req \in MmapProbes}
    /\ response = None
    /\ ClientUnused
    /\ BatchUnused
    /\ ZipUnused /\ IndexUnused /\ ConcUnused /\ HealthUnused /\ ManagerUnused

MmapNext == DoGetDownload

SpecMmap == MmapInit /\ [][MmapNext]_vars

C2_AnyDotDotForbidden ==
    Handled("download") /\ (HasDotDotSegment(ReqPath) \/ isabs(ReqPath)) =>
        response[1].status = 403 /\ ~Opened(response[1])

\* C2 amended: every relative path whose normalized form still begins with a
\* ".." segment, and every absolute path, is answered 403 and no file is read.
C2_NormalizedDotDotForbidden ==
    Handled("download") /\ (normpath(ReqPath)[1] = ".." \/ isabs(ReqPath)) =>
        response[1].status = 403 /\ ~Opened(response[1])

\* an absolute path refused
C2_Witness ==
    /\ Handled("download")
    /\ isabs(ReqPath)
    /\ ReqPath[Len(ReqPath)] = "a"
    /\ response[1].status = 403

\* the body served for "a" under a Range header bytes=start-end (end optional)
ServedRange(start, end) ==
    HandleDownloadFile(<<"a">>,
        [range |-> Some([unit |-> "bytes", start |-> Some(start), end |-> end]),
         if_none_match |-> None], shared, "none").body

ServedFull == HandleDownloadFile(<<"a">>, NoHeaders, shared, "none").body

\* the handled request asks for "a" from byte s on, without a validator
AsksTail(s) ==
    /\ Handled("download")
    /\ request[1].fault = "none"
    /\ ReqPath = <<"a">>
    /\ request[1].headers = [range |-> Some([unit |-> "bytes", start |-> Some(s), end |-> None]),
                             if_none_match |-> None]

\* C5: for every content and every split 0 < s < size, the bytes served for the
\* whole file equal those served for [0, s-1] followed by those for [s, end],
\* and equal the file's bytes.
C5_RangeRoundTrip ==
    \A s \in 1..(Len(shared.content) - 1) :
        /\ ServedFull = shared.content
        /\ ServedRange(0, Some(s - 1)) \o ServedRange(s, None) = ServedFull
        /\ AsksTail(s) => ServedRange(0, Some(s - 1)) \o response[1].body = shared.content

\* the second half of a split download has been served
C5_Witness ==
    /\ Len(shared.content) = MaxFileSize
    /\ AsksTail(1)
    /\ response[1].status = 206
    /\ Len(response[1].body) = MaxFileSize - 1

\* the ETag of the resource the handled request names, when it has one
CurrentETag ==
    IF Dispatch(request[1].target) = "list"
    THEN Some(ListETag(JsonDumps(BuildFileList(CHOOSE w \in WalkOrders(TreeOf(shared)) : TRUE, TRUE))))
    ELSE IF isfile(JoinBase(normpath(ReqPath))) /\ ~PathRejected(ReqPath)
              /\ request[1].fault # "stat"
         THEN Some(FileETag(shared))
    ELSE None

\* C6: on list-index and download-single, a request whose If-None-Match equals
\* the resource's current ETag gets 304 with no body and no file opened; a
\* request with another token or none never gets 304.
C6_NotModified ==
    response # None =>
        LET r   == response[1]
            inm == request[1].headers.if_none_match
        IN  /\ (inm # None /\ inm = CurrentETag) => r.status = 304
            /\ r.status = 304 => /\ inm # None /\ inm = CurrentETag
                                 /\ r.body = <<>>
                                 /\ ~Opened(r)

\* a listing request answered 304 from the cached snapshot
C6_Witness ==
    /\ Handled("list")
    /\ response[1].status = 304
    /\ dir_cache # <<>> /\ dir_cache[1].hits > 0

\* the handled download request was answered with the file's status line
Streamed == Handled("download") /\ response[1].status \in {200, 206}

\* the Range header of the handled request has the shape bytes=start-[end]
AsksBytesRange ==
    LET range == request[1].headers.range
    IN  range # None /\ range[1].unit = "bytes" /\ range[1].start # None

\* the first and last byte the handled request asks for
AskedStart == IF AsksBytesRange THEN request[1].headers.range[1].start[1] ELSE 0

AskedEnd ==
    IF AsksBytesRange /\ request[1].headers.range[1].end # None
    THEN request[1].headers.range[1].end[1]
    ELSE Len(shared.content) - 1

\* C12: download-single answers 206 with Content-Range: bytes start-end/size
\* exactly when the request carries Range: bytes=start-[end] (end defaulting
\* to size-1) and 200 without Content-Range otherwise; in both cases the
\* declared Content-Length is end - start + 1.
C12_RangeStatus ==
    Streamed =>
        LET r == response[1]
        IN  /\ r.status = 206 <=> AsksBytesRange
            /\ r.content_range =
                   IF AsksBytesRange
                   THEN Some([start |-> AskedStart, end |-> AskedEnd,
                              size |-> Len(shared.content)])
                   ELSE None
            /\ r.content_length = Some(AskedEnd - AskedStart + 1)

\* a range with an explicit end honoured with 206, and a Range header of
\* another unit has been answered 200 for the same file
C12_Witness ==
    /\ Streamed
    /\ Len(shared.content) = MaxFileSize
    /\ AsksBytesRange /\ AskedStart = 1 /\ AskedEnd = 1
    /\ request[1].headers.range[1].end # None
    /\ response[1].status = 206
    /\ response[1].content_length = Some(1)

\* bytes [start, end] of a file, as positions start+1..end+1 of its content
FileBytes(content, start, end) ==
    IF start <= end /\ end < Len(content) THEN SubSeq(content, start + 1, end + 1) ELSE <<>>

\* C13: for every accepted request, whatever its start and optional end
\* (start >= size, end >= size and start > end included), the body written
\* is exactly bytes [start, end] of the file, its length is the declared
\* Content-Length, and the declared Content-Length is not negative.
C13_ExactRange ==
    (Streamed /\ request[1].fault = "none") =>
        LET r == response[1]
        IN  /\ r.content_length[1] >= 0
            /\ Len(r.body) = r.content_length[1]
            /\ r.body = FileBytes(shared.content, AskedStart, AskedEnd)

\* C14: a path violation is answered 403 before the existence check, a
\* missing file 404; and once the headers of a 200/206 have been sent, a
\* failure writes no second status line or error page into the response:
\* the bytes after the headers are bytes of the file only, so a body as long
\* as the declared Content-Length is the requested range of the file.
C14_FailureMapping ==
    Handled("download") =>
        LET r == response[1]
        IN  /\ PathRejected(ReqPath) => r.status = 403 /\ r.log = <<>>
            /\ (~PathRejected(ReqPath) /\ ~isfile(JoinBase(normpath(ReqPath))))
                   => r.status = 404
            /\ r.status \in {200, 206} =>
                   /\ r.late_error = None
                   /\ \A i \in DOMAIN r.body : r.body[i] > 0
                   /\ (r.content_length[1] > 0 /\ Len(r.body) >= r.content_length[1])
                          => SubSeq(r.body, 1, r.content_length[1])
                                 = SubSeq(shared.content, AskedStart + 1,
                                          AskedStart + r.content_length[1])

(* ----------------------- HTTPClient.download_file ----------------------- *)
\* the default of max_retries
DefaultMaxRetries == 3
\* most calls of download_file in one behaviour
MaxCalls == 2

\* the remote paths the client asks for: the shared file, a missing file, and
\* a path above the root
ClientPaths == {<<"a">>, <<"a", "a">>, <<"..", "a">>}

CallArgs ==
    [file_path : ClientPaths, resume : BOOLEAN, verify_integrity : BOOLEAN,
     max_retries : {0, DefaultMaxRetries}]

\* requests.exceptions.ConnectionError and Timeout
ConnErrors == {"ConnectionError", "Timeout"}
\* any other exception: an HTTP error status, a local I/O error, a protocol error
OtherErrors == {"HTTPError", "OSError", "ChunkedEncodingError"}

\* lines 125-136 for the response r (status 200 or 206): mode, resume_pos,
\* total_size and downloaded; resume_pos is the local size read at line 102
Transfer(r, resume_pos) ==
    LET offset == IF r.status = 206 THEN resume_pos ELSE 0
    IN  [resume_pos |-> offset, declared |-> r.content_length[1],
         total_size |-> r.content_length[1] + offset, downloaded |-> offset]

\* lines 119-121: the pair reported on 304
ProgressUpToDate(file) ==
    LET file_size == IF file = None THEN 0 ELSE Len(file[1])
    IN  [done |-> file_size, total |-> file_size]

\* the request headers asking for the whole file again when resuming
RequestHeadersFromZero(args, file, etagFile) ==
    [range |-> IF args.resume /\ file # None
               THEN Some([unit |-> "bytes", start |-> Some(0), end |-> None])
               ELSE None,
     if_none_match |-> IF args.verify_integrity /\ etagFile # None THEN etagFile ELSE None]

\* lines 99-113: the request headers, from the local file and the sidecar
RequestHeaders(args, file, etagFile) ==
    [range |-> IF args.resume /\ file # None
               THEN Some([unit |-> "bytes", start |-> Some(Len(file[1])), end |-> None])
               ELSE None,
     if_none_match |-> IF args.verify_integrity /\ etagFile # None THEN etagFile ELSE None]

\* the retry test admitting one retry too many
CaughtConnErrorOneMore(e) ==
    /\ retry_count' = retry_count + 1
    /\ connFailures' = connFailures + 1
    /\ lastError' = Some(e)
    /\ stream' = <<>>
    /\ IF retry_count <= call[1].max_retries
       THEN pc' = "attempt" /\ result' = None
       ELSE /\ pc' = "done"
            /\ result' = Some([success |-> FALSE, message |-> "Download failed after retries",
                               detail |-> Some(e)])

\* lines 174-182: a connection/timeout exception was caught
CaughtConnError(e) ==
    /\ retry_count' = retry_count + 1
    /\ connFailures' = connFailures + 1
    /\ lastError' = Some(e)
    /\ stream' = <<>>
    /\ IF retry_count + 1 <= call[1].max_retries
       THEN pc' = "attempt" /\ result' = None
       ELSE /\ pc' = "done"
            /\ result' = Some([success |-> FALSE, message |-> "Download failed after retries",
                               detail |-> Some(e)])

\* the cleanup removing the output file whether or not resume was requested
CaughtOtherErrorAlwaysRemove(e, file) ==
    /\ localFile' = None
    /\ lastError' = Some(e)
    /\ stream' = <<>>
    /\ pc' = "done"
    /\ result' = Some([success |-> FALSE, message |-> "Download failed", detail |-> Some(e)])
    /\ UNCHANGED <<retry_count, connFailures>>

\* lines 183-190: any other exception was caught; `file` is the local file then
CaughtOtherError(e, file) ==
    /\ localFile' = IF ~call[1].resume /\ file # None THEN None ELSE file
    /\ lastError' = Some(e)
    /\ stream' = <<>>
    /\ pc' = "done"
    /\ result' = Some([success |-> FALSE, message |-> "Download failed", detail |-> Some(e)])
    /\ UNCHANGED <<retry_count, connFailures>>

ClientInit ==
    /\ shared \in {f \in SharedStates : f.content # <<>> /\ f.mtime = 0}
    /\ dir_cache = <<>> /\ now = 0 /\ request = None /\ response = None
    /\ ClientUnused
    /\ BatchUnused
    /\ ZipUnused /\ IndexUnused /\ ConcUnused /\ HealthUnused /\ ManagerUnused

\* download_file is called
Call(args) ==
    /\ pc \in {"idle", "done"}
    /\ calls < MaxCalls
    /\ calls' = calls + 1
    /\ call' = Some(args)
    /\ pc' = "attempt"
    /\ retry_count' = 0
    /\ result' = None
    /\ before' = localFile
    /\ attempts' = 0 /\ connFailures' = 0 /\ lastError' = None
    /\ sent' = None /\ lastStatus' = None
    /\ xfer' = None /\ progress' = None
    /\ UNCHANGED <<healthVars, managerVars, serverVars, batchVars, zipVars, concVars, indexVars, localFile, sidecar, stream>>

\* lines 95-97: creating the parent directory fails
MkdirFails ==
    /\ pc = "attempt"
    /\ attempts' = attempts + 1
    /\ CaughtOtherError("OSError", localFile)
    /\ UNCHANGED <<healthVars, managerVars, serverVars, batchVars, zipVars, concVars, indexVars, xfer, progress, sidecar, call, calls, before, sent, lastStatus>>

\* line 115: session.get raises a connection or timeout error
GetFails(e) ==
    /\ pc = "attempt"
    /\ attempts' = attempts + 1
    /\ sent' = Some([headers |-> RequestHeaders(call[1], localFile, sidecar),
                     local_size |-> IF localFile = None THEN None ELSE Some(Len(localFile[1]))])
    /\ CaughtConnError(e)
    /\ UNCHANGED <<healthVars, managerVars, serverVars, batchVars, zipVars, concVars, indexVars, xfer, progress, localFile, sidecar, call, calls, before, lastStatus>>

\* lines 115-148: the server answers; the status is handled, the sidecar
\* written and the output file opened.  open_ok = FALSE makes open() raise.
GetResponds(fault, open_ok) ==
    /\ pc = "attempt"
    /\ LET args    == call[1]
           headers == RequestHeaders(args, localFile, sidecar)
           r       == HandleDownloadFile(args.file_path, headers, shared, fault)
           resume_pos == IF args.resume /\ localFile # None THEN Len(localFile[1]) ELSE 0
           etagNow == IF r.etag # None /\ args.verify_integrity THEN r.etag ELSE sidecar
       IN  /\ attempts' = attempts + 1
           /\ sent' = Some([headers |-> headers,
                            local_size |-> IF localFile = None THEN None
                                           ELSE Some(Len(localFile[1]))])
           /\ lastStatus' = Some(r.status)
           /\ IF r.status = 304
              THEN /\ pc' = "done"
                   /\ result' = Some([success |-> TRUE, message |-> "File already up to date!",
                                      detail |-> None])
                   /\ progress' = Some(ProgressUpToDate(localFile))
                   /\ UNCHANGED <<localFile, sidecar, stream, retry_count, connFailures,
                                  lastError, xfer>>
              ELSE IF r.status \notin {200, 206}
              THEN /\ CaughtOtherError("HTTPError", localFile)
                   /\ UNCHANGED <<sidecar, xfer, progress>>
              ELSE IF ~open_ok
              THEN /\ sidecar' = etagNow
                   /\ xfer' = Some(Transfer(r, resume_pos))
                   /\ CaughtOtherError("OSError", localFile)
                   /\ UNCHANGED progress
              ELSE /\ sidecar' = etagNow
                   /\ localFile' = IF r.status = 206 /\ localFile # None THEN localFile
                                   ELSE Some(<<>>)
                   /\ stream' = r.body
                   /\ xfer' = Some(Transfer(r, resume_pos))
                   /\ pc' = "stream"
                   /\ result' = None
                   /\ UNCHANGED <<retry_count, connFailures, lastError, progress>>
    /\ UNCHANGED <<healthVars, managerVars, serverVars, batchVars, zipVars, concVars, indexVars, call, calls, before>>

\* lines 149-152: iter_content yields the next n bytes and they are written
WriteChunk(n) ==
    /\ pc = "stream"
    /\ n \in 1..Len(stream)
    /\ localFile' = Some(localFile[1] \o SubSeq(stream, 1, n))
    /\ stream' = SubSeq(stream, n + 1, Len(stream))
    /\ xfer' = Some([xfer[1] EXCEPT !.downloaded = @ + n])
    /\ progress' = Some([done |-> xfer[1].downloaded + n, total |-> xfer[1].total_size])
    /\ UNCHANGED <<healthVars, managerVars, serverVars, batchVars, zipVars, concVars, indexVars, sidecar, call, pc, retry_count, result, calls, before,
                   attempts, connFailures, lastError, sent, lastStatus>>

\* line 149: the connection breaks or times out before the body is complete
StreamConnError(e) ==
    /\ pc = "stream"
    /\ stream # <<>>
    /\ CaughtConnError(e)
    /\ UNCHANGED <<healthVars, managerVars, serverVars, batchVars, zipVars, concVars, indexVars, xfer, progress, localFile, sidecar, call, calls, before, attempts, sent,
                   lastStatus>>

\* lines 149-151: reading the body or writing the file raises something else
StreamOtherError(e) ==
    /\ pc = "stream"
    /\ stream # <<>>
    /\ CaughtOtherError(e, localFile)
    /\ UNCHANGED <<healthVars, managerVars, serverVars, batchVars, zipVars, concVars, indexVars, xfer, progress, sidecar, call, calls, before, attempts, sent, lastStatus>>

\* lines 164-172: the body is complete; the sidecar is removed
Finish ==
    /\ pc = "stream"
    /\ stream = <<>>
    /\ sidecar' = None
    /\ pc' = "done"
    /\ result' = Some([success |-> TRUE, message |-> "Download complete!", detail |-> None])
    /\ UNCHANGED <<healthVars, managerVars, serverVars, batchVars, zipVars, concVars, indexVars, xfer, progress, localFile, call, retry_count, stream, calls, before,
                   attempts, connFailures, lastError, sent, lastStatus>>

\* the steps inside a call
ClientStep ==
    \/ MkdirFails
    \/ \E e \in ConnErrors : GetFails(e)
    \/ \E fault \in {"none", "stat"}, open_ok \in BOOLEAN : GetResponds(fault, open_ok)
    \/ \E n \in 1..MaxFileSize : WriteChunk(n)
    \/ \E e \in ConnErrors : StreamConnError(e)
    \/ \E e \in {"OSError", "ChunkedEncodingError"} : StreamOtherError(e)
    \/ Finish

ClientNext ==
    \/ \E args \in CallArgs : Call(args)
    \/ MkdirFails
    \/ \E e \in ConnErrors : GetFails(e)
    \/ \E fault \in {"none", "stat"}, open_ok \in BOOLEAN : GetResponds(fault, open_ok)
    \/ \E n \in 1..MaxFileSize : WriteChunk(n)
    \/ \E e \in ConnErrors : StreamConnError(e)
    \/ \E e \in {"OSError", "ChunkedEncodingError"} : StreamOtherError(e)
    \/ Finish

Spec == ClientInit /\ [][ClientNext]_vars

\* every attempt ends: a step inside a call that can be taken is taken
SpecFair == Spec /\ WF_vars(ClientStep)

(* ------------------- properties of download_file ----------------------- *)
Returned == pc = "done" /\ result # None

Succeeded == Returned /\ result[1].success

IsPrefix(a, b) == Len(a) <= Len(b) /\ SubSeq(b, 1, Len(a)) = a

\* the Range header bytes=K-
RangeFrom(k) == Some([unit |-> "bytes", start |-> Some(k), end |-> None])

\* C3: with resume enabled and the remote file unchanged, a request made while
\* a local file of K bytes exists asks for bytes K to the end, and when the
\* call returns success after such a request the local file has the remote
\* file's size -- whatever came before, a sidecar left by an interrupted
\* attempt included.
C3_ResumeCompletes ==
    (call # None /\ call[1].resume /\ call[1].file_path = <<"a">>
       /\ sent # None /\ sent[1].local_size # None) =>
        /\ sent[1].headers.range = RangeFrom(sent[1].local_size[1])
        /\ Succeeded => localFile # None /\ Len(localFile[1]) = Len(shared.content)

\* C4: a call that ends on a 304 reports success only if the local file exists
\* and is complete.
C4_NotModifiedChecksLocal ==
    (Succeeded /\ lastStatus = Some(304)) =>
        localFile # None /\ localFile[1] = shared.content

C8_Bounds ==
    call # None =>
        /\ attempts <= call[1].max_retries + 1
        /\ attempts <= connFailures + 1
        /\ (Returned /\ connFailures = attempts /\ attempts > 0) =>
               /\ ~result[1].success
               /\ connFailures = call[1].max_retries + 1
               /\ result[1].detail = lastError
               /\ lastError[1] \in ConnErrors

\* C8: a call makes at most max_retries + 1 attempts, each attempt after the
\* first follows a connection/timeout failure, a call whose every attempt
\* failed that way returns failure with the last error, and a running call
\* returns in the end.
C8_RetryBound ==
    /\ []C8_Bounds
    /\ (pc \in {"attempt", "stream"}) ~> (pc = "done")

\* all max_retries + 1 attempts of a default call failed on the connection
C8_Witness ==
    /\ Returned
    /\ call[1].max_retries = DefaultMaxRetries
    /\ attempts = DefaultMaxRetries + 1
    /\ connFailures = attempts
    /\ ~result[1].success

\* the step in which an exception other than a connection/timeout one is caught
OtherErrorCaught ==
    /\ lastError' # lastError
    /\ lastError' # None
    /\ lastError'[1] \in OtherErrors

C9_EndState ==
    (Returned /\ ~result[1].success /\ lastError[1] \in OtherErrors) =>
        /\ ~call[1].resume => localFile = None
        /\ (call[1].resume /\ before # None) =>
               localFile # None /\ IsPrefix(before[1], localFile[1])

\* C9: a failure other than a connection/timeout one ends the call in the step
\* that catches it, with no further attempt; the output file is removed if
\* resume was not requested and left as it is otherwise, so the bytes it held
\* before the call are still its first bytes.
C9_OtherFailure ==
    /\ [][OtherErrorCaught =>
            /\ pc' = "done" /\ ~result'[1].success
            /\ attempts' = attempts \/ (pc = "attempt" /\ attempts' = attempts + 1)
            /\ retry_count' = retry_count
            /\ IF call[1].resume THEN localFile' = localFile ELSE localFile' = None]_vars
    /\ []C9_EndState

\* a resumed transfer appended bytes to an earlier partial file and then failed
C9_Witness ==
    /\ Returned /\ ~result[1].success
    /\ lastError[1] \in OtherErrors
    /\ call[1].resume
    /\ before # None /\ before[1] # <<>>
    /\ Len(localFile[1]) > Len(before[1])

\* the ETag of the file the call names, as the server gives it
ServedETag == Some(FileETag(shared))

\* bytes are written to the local file in this step
BodyWritten == pc = "stream" /\ localFile' # localFile /\ localFile' # None

\* the call has ended, or none has begun
NoTransfer == pc \in {"idle", "done"}

\* C31: with integrity checking on, the ETag received is in the sidecar
\* before any body byte is written and a later attempt presents it as
\* If-None-Match; once download_file has returned success, by the 304 path
\* too, there is no sidecar; and no sidecar exists without a local file
\* unless a transfer is in progress.
C31_SidecarLifecycle ==
    /\ [][(BodyWritten /\ call[1].verify_integrity) => sidecar = ServedETag]_vars
    /\ [][(pc = "attempt" /\ sent' # sent /\ call[1].verify_integrity)
              => sent'[1].headers.if_none_match = sidecar]_vars
    /\ [](Succeeded => sidecar = None)
    /\ []((NoTransfer /\ localFile = None) => sidecar = None)

\* download_file against a server whose open of the shared file can raise
\* after the response headers were sent (server.py lines 263-272): the
\* response then carries the bytes of send_error in its body
StreamNext ==
    \/ ClientNext
    \/ \E open_ok \in BOOLEAN : GetResponds("open", open_ok)

SpecStream == ClientInit /\ [][StreamNext]_vars

\* a chunk is written to the local file in this step
ChunkWritten == pc = "stream" /\ pc' = "stream" /\ localFile' # localFile

\* the body of an accepted response starts to be written in this step
BodyOpened == pc = "attempt" /\ pc' = "stream"

\* C32: each chunk is written at the offset equal to the bytes already
\* present, the resume offset plus the bytes written so far, so the file only
\* grows; a 206 response appends at the resume offset and a 200 response
\* truncates and restarts at 0; the local file is always a prefix of the
\* remote file.
C32_WriteOrdering ==
    /\ [][ChunkWritten =>
              /\ Len(localFile[1]) = xfer[1].downloaded
              /\ xfer[1].downloaded >= xfer[1].resume_pos
              /\ Len(localFile'[1]) > Len(localFile[1])
              /\ IsPrefix(localFile[1], localFile'[1])]_vars
    /\ [][BodyOpened =>
              IF lastStatus' = Some(206)
              THEN localFile' = localFile /\ Len(localFile'[1]) = xfer'[1].resume_pos
              ELSE localFile' = Some(<<>>) /\ xfer'[1].resume_pos = 0]_vars
    /\ [](localFile # None => IsPrefix(localFile[1], shared.content))

\* a resumed transfer has appended a chunk behind the bytes it found
C32_Witness ==
    /\ pc = "stream" /\ lastStatus = Some(206)
    /\ xfer[1].resume_pos > 0 /\ xfer[1].downloaded > xfer[1].resume_pos

\* download_file for a file downloaded completely before: the local file
\* holds the bytes of the remote file; a sidecar may have remained (the 304
\* path leaves it)
RedownloadInit ==
    /\ shared \in {f \in SharedStates : f.content # <<>> /\ f.mtime = 0}
    /\ dir_cache = <<>> /\ now = 0 /\ request = None /\ response = None
    /\ localFile = Some(shared.content)
    /\ sidecar \in {None, Some(FileETag(shared))}
    /\ call = None /\ pc = "idle"
    /\ retry_count = 0 /\ stream = <<>> /\ result = None /\ calls = 0
    /\ before = None /\ attempts = 0 /\ connFailures = 0 /\ lastError = None
    /\ sent = None /\ lastStatus = None /\ xfer = None /\ progress = None
    /\ BatchUnused
    /\ ZipUnused /\ IndexUnused /\ ConcUnused /\ HealthUnused /\ ManagerUnused

SpecRedownload == RedownloadInit /\ [][ClientNext]_vars

\* the call asks, with resume, for the shared file, which was complete at
\* save_path when the call began
Redownload ==
    /\ call # None
    /\ call[1].resume
    /\ call[1].file_path = <<"a">>
    /\ before = Some(shared.content)

\* C37: a download_file call with resume for a file that is complete at
\* save_path and unchanged on the server never changes a byte of the local
\* file, is never answered with a full body (only 206 for the empty rest, 304,
\* or the server's own failure), and returns success unless an attempt met a
\* failure of the connection, the server or the local disk; this holds for
\* every call of a row of such calls.
C37_RedownloadIdempotent ==
    Redownload =>
        /\ localFile = before
        /\ lastStatus # None => lastStatus[1] \in {206, 304, 500}
        /\ (lastStatus = Some(206) /\ xfer # None) =>
               xfer[1].declared = 0 /\ xfer[1].resume_pos = Len(shared.content)
        /\ (Returned /\ lastError = None) => Succeeded

\* the second call in a row has returned success after a 206 answer
C37_Witness ==
    /\ Redownload /\ Succeeded
    /\ calls = 2
    /\ lastStatus = Some(206)
    /\ localFile = Some(shared.content)

\* the resume offset and the declared remaining length of the attempt that
\* is streaming, from the request sent and the server's answer to it
ResumeOffset == IF lastStatus = Some(206) THEN sent[1].local_size[1] ELSE 0

DeclaredLength ==
    HandleDownloadFile(call[1].file_path, sent[1].headers, shared, "none").content_length[1]

\* C24: over one download_file call, retries included, resume or not, the
\* pairs passed to the progress callback have non-decreasing bytes_done, and
\* a pair reported while streaming has bytes_total = resume offset +
\* declared remaining length.
C24_ProgressMonotone ==
    [][/\ (progress # None /\ progress' # None) => progress'[1].done >= progress[1].done
       /\ (pc = "stream" /\ progress' # progress) =>
              progress'[1].total = ResumeOffset + DeclaredLength]_vars

(* ------------------- client.py: HTTPClient.download_all ---------------- *)
\* The client variables are those of download_file; localFile is the file at
\* save_path, call holds the max_retries argument.
MaxArchiveRetries == 2

\* a file left at save_path by an earlier run
OldArchive == <<9, 9>>

\* the zip bytes the server streams for the shared tree: never empty
ArchiveOf(file) == <<0>> \o file.content

\* the statuses a server at ip:port may answer with; the handler of this
\* repository only ever sends 200
ArchiveStatuses == {200, 404, 500}

\* the cleanup leaving the partial file in place once retries are exhausted
CaughtArchiveConnErrorKeep(e) ==
    /\ retry_count' = retry_count + 1
    /\ connFailures' = connFailures + 1
    /\ lastError' = Some(e)
    /\ stream' = <<>>
    /\ IF retry_count + 1 <= call[1].max_retries
       THEN /\ localFile' = None
            /\ pc' = "attempt" /\ result' = None
       ELSE /\ localFile' = localFile
            /\ pc' = "done"
            /\ result' = Some([success |-> FALSE,
                               message |-> "Bulk download failed after retries",
                               detail |-> Some(e)])

\* lines 235-253: a connection/timeout exception was caught; the file at
\* save_path is removed in both branches
CaughtArchiveConnError(e) ==
    /\ retry_count' = retry_count + 1
    /\ connFailures' = connFailures + 1
    /\ lastError' = Some(e)
    /\ stream' = <<>>
    /\ localFile' = None
    /\ IF retry_count + 1 <= call[1].max_retries
       THEN pc' = "attempt" /\ result' = None
       ELSE /\ pc' = "done"
            /\ result' = Some([success |-> FALSE,
                               message |-> "Bulk download failed after retries",
                               detail |-> Some(e)])

\* lines 254-260: any other exception was caught
CaughtArchiveOtherError(e) ==
    /\ localFile' = None
    /\ lastError' = Some(e)
    /\ stream' = <<>>
    /\ pc' = "done"
    /\ result' = Some([success |-> FALSE, message |-> "Bulk download failed",
                       detail |-> Some(e)])
    /\ UNCHANGED <<retry_count, connFailures>>

ArchiveInit ==
    /\ shared \in {f \in SharedStates : f.mtime = 0}
    /\ dir_cache = <<>> /\ now = 0 /\ request = None /\ response = None
    /\ localFile \in {None, Some(OldArchive)}
    /\ sidecar = None /\ call = None
    /\ pc = "idle" /\ retry_count = 0 /\ stream = <<>>
    /\ result = None /\ calls = 0 /\ before = None
    /\ attempts = 0 /\ connFailures = 0 /\ lastError = None
    /\ sent = None /\ lastStatus = None /\ xfer = None /\ progress = None
    /\ BatchUnused
    /\ ZipUnused /\ IndexUnused /\ ConcUnused /\ HealthUnused /\ ManagerUnused

\* download_all is called
DownloadAllCall(retries) ==
    /\ pc \in {"idle", "done"}
    /\ calls < MaxCalls
    /\ calls' = calls + 1
    /\ call' = Some([max_retries |-> retries])
    /\ pc' = "attempt"
    /\ retry_count' = 0
    /\ result' = None
    /\ before' = localFile
    /\ attempts' = 0 /\ connFailures' = 0 /\ lastError' = None
    /\ sent' = None /\ lastStatus' = None
    /\ UNCHANGED <<healthVars, managerVars, serverVars, batchVars, zipVars, concVars, indexVars, xfer, progress, localFile, sidecar, stream>>

\* line 201: session.get raises a connection error or a timeout
DownloadAllGetFails(e) ==
    /\ pc = "attempt"
    /\ attempts' = attempts + 1
    /\ sent' = Some([target |-> [path |-> "/download_all", query |-> None],
                     headers |-> NoHeaders])
    /\ CaughtArchiveConnError(e)
    /\ UNCHANGED <<healthVars, managerVars, serverVars, batchVars, zipVars, concVars, indexVars, xfer, progress, sidecar, call, calls, before, lastStatus>>

\* lines 201-213: a response arrives; raise_for_status, mkdir, open 'wb'
DownloadAllResponds(status, local_ok) ==
    /\ pc = "attempt"
    /\ attempts' = attempts + 1
    /\ sent' = Some([target |-> [path |-> "/download_all", query |-> None],
                     headers |-> NoHeaders])
    /\ lastStatus' = Some(status)
    /\ IF status >= 400
       THEN CaughtArchiveOtherError("HTTPError")
       ELSE IF ~local_ok
       THEN CaughtArchiveOtherError("OSError")
       ELSE /\ localFile' = Some(<<>>)
            /\ stream' = ArchiveOf(shared)
            /\ pc' = "stream"
            /\ UNCHANGED <<retry_count, connFailures, lastError, result>>
    /\ UNCHANGED <<healthVars, managerVars, serverVars, batchVars, zipVars, concVars, indexVars, xfer, progress, sidecar, call, calls, before>>

\* lines 214-217: one chunk of the body is written
DownloadAllWriteChunk(n) ==
    /\ pc = "stream"
    /\ stream # <<>>
    /\ n <= Len(stream)
    /\ localFile' = Some(localFile[1] \o SubSeq(stream, 1, n))
    /\ stream' = SubSeq(stream, n + 1, Len(stream))
    /\ UNCHANGED <<healthVars, managerVars, serverVars, batchVars, zipVars, concVars, indexVars, xfer, progress, sidecar, call, pc, retry_count, result, calls, before,
                   attempts, connFailures, lastError, sent, lastStatus>>

\* iter_content raises a connection error or a timeout
DownloadAllStreamConnError(e) ==
    /\ pc = "stream"
    /\ CaughtArchiveConnError(e)
    /\ UNCHANGED <<healthVars, managerVars, serverVars, batchVars, zipVars, concVars, indexVars, xfer, progress, sidecar, call, calls, before, attempts, sent,
                   lastStatus>>

\* iter_content or f.write raises anything else
DownloadAllStreamOtherError(e) ==
    /\ pc = "stream"
    /\ CaughtArchiveOtherError(e)
    /\ UNCHANGED <<healthVars, managerVars, serverVars, batchVars, zipVars, concVars, indexVars, xfer, progress, sidecar, call, calls, before, attempts, sent,
                   lastStatus>>

\* line 233: the body is exhausted
DownloadAllFinish ==
    /\ pc = "stream"
    /\ stream = <<>>
    /\ pc' = "done"
    /\ result' = Some([success |-> TRUE, message |-> "Bulk download complete!",
                       detail |-> None])
    /\ UNCHANGED <<healthVars, managerVars, serverVars, batchVars, zipVars, concVars, indexVars, xfer, progress, localFile, sidecar, call, retry_count, stream, calls,
                   before, attempts, connFailures, lastError, sent, lastStatus, xfer,
                progress>>

ArchiveNext ==
    \/ \E retries \in 0..MaxArchiveRetries : DownloadAllCall(retries)
    \/ \E e \in ConnErrors : DownloadAllGetFails(e)
    \/ \E status \in ArchiveStatuses, local_ok \in BOOLEAN : DownloadAllResponds(status, local_ok)
    \/ \E n \in 1..(MaxFileSize + 1) : DownloadAllWriteChunk(n)
    \/ \E e \in ConnErrors : DownloadAllStreamConnError(e)
    \/ \E e \in {"OSError", "ChunkedEncodingError"} : DownloadAllStreamOtherError(e)
    \/ DownloadAllFinish

SpecArchive == ArchiveInit /\ [][ArchiveNext]_vars

(* ------------------- properties of download_all ------------------------ *)
\* a failure outcome leaves nothing at save_path
C10_NoPartial == (Returned /\ ~result[1].success) => localFile = None

\* while the body is streamed, the file holds the body from its first byte
C10_FromByteZero ==
    pc = "stream" =>
        /\ localFile # None
        /\ localFile[1] \o stream = ArchiveOf(shared)
        /\ sent[1].headers.range = None

\* C10: whenever download_all returns a failure outcome (retries exhausted or
\* a non-retryable error) no file remains at save_path; and no attempt is a
\* resumption: every attempt that receives a body sends no Range header,
\* opens the output empty, and writes the body from its first byte.
C10_ArchiveCleanup ==
    /\ [](C10_NoPartial /\ C10_FromByteZero)
    /\ [][(pc = "attempt" /\ pc' = "stream") => localFile' = Some(<<>>)]_vars

\* retries were exhausted after a body had begun to arrive, and nothing is
\* left at save_path
C10_Witness ==
    /\ Returned /\ ~result[1].success
    /\ call[1].max_retries > 0
    /\ connFailures = call[1].max_retries + 1
    /\ lastStatus = Some(200)
    /\ before # None
    /\ localFile = None

\* the file that was at save_path when the call began is still there: the
\* call has opened no output so far
Untouched == before # None /\ localFile = before

\* C38: while a download_all call has not opened its output, so has written
\* no byte of the new archive, a failed attempt (the server unreachable, an
\* error status, the output impossible to open), whether it is retried or
\* ends the call, leaves the file that was at save_path as it was.
C38_FailureKeepsOldFile ==
    [][(pc = "attempt" /\ Untouched /\ pc' # "stream") => localFile' = before]_vars

(* ------------------- client.py: HTTPClient.download_files_parallel ----- *)
MaxEntries == 3
MaxBatchSize == 2

MB == 1024 * 1024

\* the entries of a listing: files of the three size tiers, and folders
Entries ==
    [type : {"file"}, size : {0, 5 * MB, 50 * MB}] \cup [type : {"folder"}, size : {0}]

FileLists == UNION {[1..n -> Entries] : n \in 0..MaxEntries}

\* line 301: the entries whose type is 'file', in order
FilesToDownload(list) == SelectSeq(list, LAMBDA f : f.type = "file")

RECURSIVE TotalSize(_)
TotalSize(files) ==
    IF files = <<>> THEN 0 ELSE Head(files).size + TotalSize(Tail(files))

\* lines 334-346; avg_size < t is compared as total_size < t * max(file_count, 1)
CalculateOptimalWorkers(list) ==
    LET files      == FilesToDownload(list)
        file_count == Len(files)
        total_size == TotalSize(files)
        divisor    == IF file_count > 1 THEN file_count ELSE 1
    IN  IF total_size < MB * divisor THEN Min(8, file_count)
        ELSE IF total_size < 10 * MB * divisor THEN Min(4, file_count)
        ELSE Min(2, file_count)

\* how a download_single ends: download_file returns (True, _) or (False, _),
\* or an exception leaves the worker
Outcomes == {"ok", "fail", "raise"}

\* the tally that does not count a raised exception
TallyIgnoringRaise(o) ==
    [successful |-> IF o = "ok" THEN 1 ELSE 0, failed |-> IF o = "fail" THEN 1 ELSE 0]

\* lines 313-322: what one completed future adds to the tally
Tally(o) ==
    [successful |-> IF o = "ok" THEN 1 ELSE 0, failed |-> IF o = "ok" THEN 0 ELSE 1]

BatchInit ==
    /\ shared \in {f \in SharedStates : f.mtime = 0 /\ f.content = <<>>}
    /\ dir_cache = <<>> /\ now = 0 /\ request = None /\ response = None
    /\ ClientUnused
    /\ file_list \in FileLists
    /\ batch_size \in 1..MaxBatchSize
    /\ max_workers = None /\ batch_start = 0
    /\ bpc = "call" /\ submitted = {} /\ running = {}
    /\ outcome = [i \in 1..Len(FilesToDownload(file_list)) |-> "pending"]
    /\ successful = 0 /\ failed = 0 /\ batch_result = None
    /\ ZipUnused /\ IndexUnused /\ ConcUnused /\ HealthUnused /\ ManagerUnused

\* lines 285-304: the worker count, the counters, the filter, the first batch_start
ParallelEnter ==
    /\ bpc = "call"
    /\ max_workers' = Some(CalculateOptimalWorkers(file_list))
    /\ successful' = 0 /\ failed' = 0
    /\ batch_start' = 0
    /\ bpc' = "loop"
    /\ UNCHANGED <<healthVars, managerVars, serverVars, clientVars, zipVars, concVars, indexVars, file_list, batch_size, submitted, running, outcome,
                   batch_result>>

\* lines 304-310: the next batch is cut and every file of it is submitted
BeginBatch ==
    /\ bpc = "loop"
    /\ batch_start < Len(FilesToDownload(file_list))
    /\ LET batch_end == Min(batch_start + batch_size, Len(FilesToDownload(file_list)))
       IN  submitted' = (batch_start + 1)..batch_end
    /\ bpc' = "pool"
    /\ UNCHANGED <<healthVars, managerVars, serverVars, clientVars, zipVars, concVars, indexVars, file_list, batch_size, max_workers, batch_start,
                   running, outcome, successful, failed, batch_result>>

\* an executor that starts every submitted task at once
WorkerStartUnbounded(i) ==
    /\ bpc = "pool"
    /\ i \in submitted \ running
    /\ running' = running \cup {i}
    /\ UNCHANGED <<healthVars, managerVars, serverVars, clientVars, zipVars, concVars, indexVars, file_list, batch_size, max_workers, batch_start, bpc,
                   submitted, outcome, successful, failed, batch_result>>

\* a worker of the executor takes a submitted file
WorkerStart(i) ==
    /\ bpc = "pool"
    /\ i \in submitted \ running
    /\ Cardinality(running) < max_workers[1]
    /\ running' = running \cup {i}
    /\ UNCHANGED <<healthVars, managerVars, serverVars, clientVars, zipVars, concVars, indexVars, file_list, batch_size, max_workers, batch_start, bpc,
                   submitted, outcome, successful, failed, batch_result>>

\* a loop that lets an exception raised in a worker leave download_files_parallel
CompletedRaiseEscapes(i, o) ==
    /\ bpc = "pool"
    /\ i \in running
    /\ running' = running \ {i}
    /\ submitted' = submitted \ {i}
    /\ outcome' = [outcome EXCEPT ![i] = o]
    /\ successful' = successful + (IF o = "ok" THEN 1 ELSE 0)
    /\ failed' = failed + (IF o = "fail" THEN 1 ELSE 0)
    /\ bpc' = IF o = "raise" THEN "returned" ELSE bpc
    /\ UNCHANGED <<healthVars, managerVars, serverVars, clientVars, zipVars, concVars, indexVars, file_list, batch_size, max_workers, batch_start,
                   batch_result>>

\* lines 312-325: a transfer ends and as_completed hands its future to the tally
Completed(i, o) ==
    /\ bpc = "pool"
    /\ i \in running
    /\ running' = running \ {i}
    /\ submitted' = submitted \ {i}
    /\ outcome' = [outcome EXCEPT ![i] = o]
    /\ successful' = successful + Tally(o).successful
    /\ failed' = failed + Tally(o).failed
    /\ UNCHANGED <<healthVars, managerVars, serverVars, clientVars, zipVars, concVars, indexVars, file_list, batch_size, max_workers, batch_start, bpc,
                   batch_result>>

\* lines 310, 327-329: the with block is left when every future is done
EndBatch ==
    /\ bpc = "pool"
    /\ submitted = {}
    /\ batch_start' = batch_start + batch_size
    /\ bpc' = "loop"
    /\ UNCHANGED <<healthVars, managerVars, serverVars, clientVars, zipVars, concVars, indexVars, file_list, batch_size, max_workers, submitted,
                   running, outcome, successful, failed, batch_result>>

\* line 332
ParallelReturn ==
    /\ bpc = "loop"
    /\ batch_start >= Len(FilesToDownload(file_list))
    /\ batch_result' = Some([success |-> successful > 0, successful |-> successful,
                             failed |-> failed])
    /\ bpc' = "returned"
    /\ UNCHANGED <<healthVars, managerVars, serverVars, clientVars, zipVars, concVars, indexVars, file_list, batch_size, max_workers, batch_start,
                   submitted, running, outcome, successful, failed>>

BatchNext ==
    \/ ParallelEnter
    \/ BeginBatch
    \/ \E i \in 1..MaxEntries : WorkerStart(i)
    \/ \E i \in 1..MaxEntries, o \in Outcomes : Completed(i, o)
    \/ EndBatch
    \/ ParallelReturn

SpecBatch == BatchInit /\ [][BatchNext]_vars

\* every transfer that runs ends, and the calling thread goes on
SpecBatchFair == SpecBatch /\ WF_vars(BatchNext)

(* ------------------- properties of download_files_parallel ------------- *)
\* the file entries of the input, and those whose transfer failed
FileEntries == {i \in DOMAIN file_list : file_list[i].type = "file"}

FailedTransfers == {i \in DOMAIN outcome : outcome[i] \in {"fail", "raise"}}

MaxPoolFiles == 9

\* batch_size=50 in the signature
DefaultBatchSize == 50

\* n files of one size
UniformList(n, size) == [i \in 1..n |-> [type |-> "file", size |-> size]]

\* the lists tried: files of one size; the same after a folder; the same
\* before one large file
PoolLists ==
    LET uniform == {UniformList(n, size) : n \in 0..MaxPoolFiles, size \in {0, 5 * MB, 50 * MB}}
    IN  uniform
        \cup {<<[type |-> "folder", size |-> 0]>> \o l : l \in uniform}
        \cup {l \o <<[type |-> "file", size |-> 50 * MB]>> :
                  l \in {u \in uniform : Len(u) < MaxPoolFiles}}

PoolBatchSizes == {MaxPoolFiles \div 2, DefaultBatchSize}

PoolInit ==
    /\ shared \in {f \in SharedStates : f.mtime = 0 /\ f.content = <<>>}
    /\ dir_cache = <<>> /\ now = 0 /\ request = None /\ response = None
    /\ ClientUnused
    /\ file_list \in PoolLists
    /\ batch_size \in PoolBatchSizes
    /\ max_workers = None /\ batch_start = 0
    /\ bpc = "call" /\ submitted = {} /\ running = {}
    /\ outcome = [i \in 1..Len(FilesToDownload(file_list)) |-> "pending"]
    /\ successful = 0 /\ failed = 0 /\ batch_result = None
    /\ ZipUnused /\ IndexUnused /\ ConcUnused /\ HealthUnused /\ ManagerUnused

\* the executor's queue is first in, first out: the task a free worker takes
\* is the earliest submitted one not yet started
WorkerStartNext ==
    \E i \in 1..MaxPoolFiles :
        /\ \A j \in submitted \ running : i <= j
        /\ WorkerStart(i)

\* a transfer ends: those of the empty files succeed, the others fail
TransferEnds ==
    \E i \in 1..MaxPoolFiles :
        Completed(i, IF FilesToDownload(file_list)[i].size = 0 THEN "ok" ELSE "fail")

PoolNext ==
    \/ ParallelEnter
    \/ BeginBatch
    \/ WorkerStartNext
    \/ TransferEnds
    \/ EndBatch
    \/ ParallelReturn

SpecPool == PoolInit /\ [][PoolNext]_vars

(* ------------- properties of the worker pool --------------------------- *)
\* the cap of the size tier of the average file size
TierCap(total_size, n) ==
    LET avg == total_size \div n
    IN  IF avg < 1024 * 1024 THEN 8 ELSE IF avg < 10 * 1024 * 1024 THEN 4 ELSE 2

\* the files of the batch being dispatched
BatchRange ==
    (batch_start + 1)..Min(batch_start + batch_size, Len(outcome))

\* C29: never more than max_workers transfers in flight; max_workers is
\* min(8, n), min(4, n) or min(2, n) by the tier of the average file size,
\* n the number of files, and at least 1 when there is a file; the files go
\* in consecutive batches of at most batch_size, and no transfer of a batch
\* starts before every transfer of the batch before it has finished.
C29_PoolBounds ==
    max_workers # None =>
        LET n == Cardinality(FileEntries)
        IN  /\ max_workers[1] = IF n = 0 THEN 0
                                ELSE Min(TierCap(TotalSize(FilesToDownload(file_list)), n), n)
            /\ n >= 1 => max_workers[1] >= 1
            /\ Cardinality(running) <= max_workers[1]
            /\ running \subseteq submitted
            /\ submitted \subseteq BatchRange
            /\ Cardinality(BatchRange) <= batch_size
            /\ batch_start % batch_size = 0
            /\ bpc = "pool" =>
                   /\ \A i \in 1..batch_start : outcome[i] # "pending"
                   /\ \A i \in BatchRange \ submitted : outcome[i] # "pending"
                   /\ \A i \in DOMAIN outcome : i > batch_start + batch_size =>
                          outcome[i] = "pending"

\* nine small files: eight transfers in flight and the ninth waiting
C29_Witness ==
    /\ max_workers = Some(8)
    /\ Cardinality(running) = 8
    /\ Cardinality(submitted \ running) >= 1

(* ------------- properties of the memory-mapped path -------------------- *)
\* the handled request names a file above the threshold and a range inside
\* it, and the memory-mapped path fails
MmapFails ==
    /\ Handled("download")
    /\ request[1].fault \in MmapFaults
    /\ Len(shared.content) > MmapThreshold
    /\ response[1].content_length # None
    /\ response[1].content_length[1] >= 1
    /\ response[1].content_range # None =>
           response[1].content_range[1].end < Len(shared.content)

\* bytes [start, end] of the shared file, as the response's headers name them
BytesOfRange ==
    LET r     == response[1]
        start == IF r.content_range = None THEN 0 ELSE r.content_range[1].start
    IN  SubSeq(shared.content, start + 1, start + r.content_length[1])

\* C30: for a file above the threshold, whatever way the memory-mapped path
\* fails, the response body is exactly bytes [start, end] of the file, no
\* byte is sent twice and no error response is written.
C30_MmapFallback ==
    MmapFails =>
        /\ response[1].body = BytesOfRange
        /\ response[1].late_error = None

MaxZipRequests == 2
\* stand-in for the 2 MB read size of the send loop
ZipChunk == 2

Platforms == {"posix", "nt"}

\* lines 349-353: os.unlink(temp_path) inside the `with NamedTemporaryFile`
\* block, i.e. while temp_file is still open.  POSIX removes the name; on
\* Windows the open handle makes unlink raise PermissionError (an OSError),
\* which the handler swallows.
UnlinkHeldOpen(files, name, os_name) ==
    IF os_name = "posix" THEN files \ {name} ELSE files

ZipInit ==
    /\ shared \in {f \in SharedStates : f.mtime = 0}
    /\ dir_cache = <<>> /\ now = 0 /\ request = None /\ response = None
    /\ ClientUnused
    /\ BatchUnused
    /\ IndexUnused /\ ConcUnused /\ HealthUnused /\ ManagerUnused
    /\ platform \in Platforms
    /\ tmp_files = {} /\ hpc = "idle" /\ zip_req = 0 /\ zip_out = None

\* lines 306-313: a request is dispatched; the status line and two headers
\* are buffered
ZipArrive ==
    /\ hpc \in {"idle", "exited"}
    /\ zip_req < MaxZipRequests
    /\ zip_req' = zip_req + 1
    /\ hpc' = "create"
    /\ zip_out' = Some([status |-> 200, flushed |-> FALSE, content_length |-> None,
                        body |-> <<>>, left |-> "running"])
    /\ UNCHANGED <<healthVars, managerVars, serverVars, clientVars, batchVars, indexVars, concVars, platform, tmp_files>>

\* lines 316-317: NamedTemporaryFile(delete=False) creates the file, or raises
ZipCreateTemp(ok) ==
    /\ hpc = "create"
    /\ IF ok
       THEN /\ tmp_files' = tmp_files \cup {zip_req}
            /\ hpc' = "build"
            /\ UNCHANGED zip_out
       ELSE /\ hpc' = "exited"
            /\ zip_out' = Some([zip_out[1] EXCEPT !.left = "raise"])
            /\ UNCHANGED tmp_files
    /\ UNCHANGED <<healthVars, managerVars, serverVars, clientVars, batchVars, indexVars, concVars, platform, zip_req>>

\* lines 319-334: the archive is written into the temporary file, or the
\* build raises (an unreadable entry is skipped, anything else leaves the try)
ZipBuild(ok) ==
    /\ hpc = "build"
    /\ IF ok
       THEN /\ hpc' = "headers"
            /\ UNCHANGED <<tmp_files, zip_out>>
       ELSE /\ tmp_files' = UnlinkHeldOpen(tmp_files, zip_req, platform)
            /\ hpc' = "exited"
            /\ zip_out' = Some([zip_out[1] EXCEPT !.left = "raise"])
    /\ UNCHANGED <<healthVars, managerVars, serverVars, clientVars, batchVars, indexVars, concVars, platform, zip_req>>

\* lines 337-339: Content-Length from the file's size; the headers are flushed
ZipSendHeaders ==
    /\ hpc = "headers"
    /\ hpc' = "stream"
    /\ zip_out' = Some([zip_out[1] EXCEPT !.flushed = TRUE,
                                          !.content_length = Some(Len(ArchiveOf(shared)))])
    /\ UNCHANGED <<healthVars, managerVars, serverVars, clientVars, batchVars, indexVars, concVars, platform, tmp_files, zip_req>>

\* lines 341-347: one chunk is read and written, or wfile.write raises
ZipWriteChunk(ok) ==
    /\ hpc = "stream"
    /\ Len(zip_out[1].body) < Len(ArchiveOf(shared))
    /\ IF ok
       THEN /\ zip_out' = Some([zip_out[1] EXCEPT
                                  !.body = @ \o ReadAt(ArchiveOf(shared), Len(@), ZipChunk)])
            /\ UNCHANGED <<tmp_files, hpc>>
       ELSE /\ tmp_files' = UnlinkHeldOpen(tmp_files, zip_req, platform)
            /\ hpc' = "exited"
            /\ zip_out' = Some([zip_out[1] EXCEPT !.left = "raise"])
    /\ UNCHANGED <<healthVars, managerVars, serverVars, clientVars, batchVars, indexVars, concVars, platform, zip_req>>

\* lines 345-353: read returns nothing; the finally clause runs
ZipFinish ==
    /\ hpc = "stream"
    /\ Len(zip_out[1].body) = Len(ArchiveOf(shared))
    /\ tmp_files' = UnlinkHeldOpen(tmp_files, zip_req, platform)
    /\ hpc' = "exited"
    /\ zip_out' = Some([zip_out[1] EXCEPT !.left = "return"])
    /\ UNCHANGED <<healthVars, managerVars, serverVars, clientVars, batchVars, indexVars, concVars, platform, zip_req>>

ZipNext ==
    \/ ZipArrive
    \/ \E ok \in BOOLEAN : ZipCreateTemp(ok)
    \/ \E ok \in BOOLEAN : ZipBuild(ok)
    \/ ZipSendHeaders
    \/ \E ok \in BOOLEAN : ZipWriteChunk(ok)
    \/ ZipFinish

SpecZip == ZipInit /\ [][ZipNext]_vars

(* ---------------- properties of _handle_download_all ------------------- *)
\* C11: whenever the download-archive handler has been left (archive fully
\* streamed, build raised, write failed mid-stream), the temporary archive of
\* that request is gone, so no temporary archive exists between requests.
C11_TempRemoved == hpc = "exited" => tmp_files = {}

(* ---------------- server.py: _build_file_list over any tree ------------ *)
\* most nodes in a tree
MaxNodes == 4

\* The nodes trees are made of: the folder D with a file and an empty folder
\* in it, a file beside D, and a file beside D whose name is "D\\a".  D's
\* children are unreadable when D has no search permission.
TopNodes == {FolderNode(<<"D">>, 0), FileNode(<<"a">>, 1, 0), FileNode(<<"D\\a">>, 3, 0)}

NestedNodes ==
    {[n EXCEPT !.readable = r] :
        n \in {FileNode(<<"D", "a">>, 2, 0), FolderNode(<<"D", "s">>, 0)}, r \in BOOLEAN}

\* the trees: sets of nodes with distinct paths in which every node's parent
\* is present, and D's children are all readable or all unreadable
ListingTrees ==
    {t \in SUBSET (TopNodes \cup NestedNodes) :
        /\ Cardinality(t) <= MaxNodes
        /\ \A m, n \in t : m.parts = n.parts => m = n
        /\ \A m, n \in t \cap NestedNodes : m.readable = n.readable
        /\ (t \cap NestedNodes # {}) => FolderNode(<<"D">>, 0) \in t}

ListingInit ==
    /\ shared \in {f \in SharedStates : f.mtime = 0 /\ f.content = <<>>}
    /\ dir_cache = <<>> /\ now = 0 /\ request = None /\ response = None
    /\ ClientUnused
    /\ BatchUnused
    /\ ZipUnused /\ ConcUnused /\ HealthUnused /\ ManagerUnused
    /\ tree \in {Some([nodes |-> t, dir_mtime |-> 0, changed_at |-> 0]) : t \in ListingTrees}
    /\ built_at = <<>> /\ index_call = None /\ ref_list = None

\* _build_file_list(base_dir) runs: rglob yields the nodes in some order, or
\* its iteration raises and the fallback walks the tree
BuildListing(walk, rglob_ok) ==
    /\ index_call = None
    /\ index_call' = Some([key |-> "base_dir", time |-> now, before |-> dir_cache,
                           data |-> BuildFileList(walk, rglob_ok), built |-> TRUE,
                           rglob_ok |-> rglob_ok])
    /\ UNCHANGED <<healthVars, managerVars, serverVars, clientVars, batchVars, zipVars, concVars, tree, built_at, ref_list>>

ListingNext ==
    \E walk \in WalkOrders(tree[1].nodes), rglob_ok \in BOOLEAN : BuildListing(walk, rglob_ok)

SpecListing == ListingInit /\ [][ListingNext]_vars

(* ---------------- properties of _build_file_list ----------------------- *)
\* the entries of a list the node accounts for: its relative path (the
\* components, one segment each), its type, its size (0 for a folder)
EntriesFor(data, node) ==
    {i \in DOMAIN data :
        /\ data[i].path = node.parts
        /\ data[i].type = node.type
        /\ data[i].size = IF node.type = "file" THEN node.size ELSE 0}

\* C16: a freshly built index has exactly one entry for each readable file
\* and each readable directory beneath the root (empty directories included),
\* keyed by its slash-separated relative path, which no other entry has, with
\* size 0 for folders; unreadable nodes have no entry and cost no other
\* entry its place.
C16_ListingContents ==
    index_call # None =>
        LET data     == index_call[1].data
            readable == {n \in tree[1].nodes : n.readable}
        IN  /\ Len(data) = Cardinality(readable)
            /\ \A n \in readable : Cardinality(EntriesFor(data, n)) = 1
            /\ \A i, j \in DOMAIN data : data[i].path = data[j].path => i = j

\* C35: a list built by _build_file_list, by the primary traversal or by the
\* fallback, is sorted by (type, lowercased path): no entry comes before one
\* with a smaller key, and every order in which the filesystem may yield the
\* nodes gives the same list.
C35_ListingSorted ==
    index_call # None =>
        LET data == index_call[1].data
        IN  /\ \A i, j \in DOMAIN data : i < j => ~KeyLess(data[j], data[i])
            /\ \A walk \in WalkOrders(tree[1].nodes) :
                  BuildFileList(walk, index_call[1].rglob_ok) = data

(* ------------- server.py: what _handle_download_all archives ------------ *)
\* os.path.basename(base_dir.rstrip(os.sep))
RootName == "root"

\* not any(file_path.iterdir()): the directory has no entry
IsEmptyDir(node, nodes) ==
    ~\E n \in nodes : /\ Len(n.parts) > Len(node.parts)
                      /\ SubSeq(n.parts, 1, Len(node.parts)) = node.parts

\* the loop without the test for an empty directory: every directory is added
RECURSIVE ZipEntriesEveryDir(_, _)
ZipEntriesEveryDir(walk, nodes) ==
    IF walk = <<>> THEN <<>>
    ELSE LET node == Head(walk)
             arcname == <<RootName>> \o node.parts
         IN  (IF ~node.readable THEN <<>>
              ELSE IF node.type = "file"
              THEN <<[arcname |-> arcname, dir |-> FALSE, size |-> node.size]>>
              ELSE <<[arcname |-> arcname, dir |-> TRUE, size |-> 0]>>)
             \o ZipEntriesEveryDir(Tail(walk), nodes)

\* lines 323-334: the loop over what rglob yields.  A file is written under
\* root_name/rel_path, an empty directory as a name ending in "/" with no
\* data; a node on which is_file, is_dir or open raises OSError is skipped
RECURSIVE ZipEntries(_, _)
ZipEntries(walk, nodes) ==
    IF walk = <<>> THEN <<>>
    ELSE LET node == Head(walk)
             arcname == <<RootName>> \o node.parts
         IN  (IF ~node.readable THEN <<>>
              ELSE IF node.type = "file"
              THEN <<[arcname |-> arcname, dir |-> FALSE, size |-> node.size]>>
              ELSE IF IsEmptyDir(node, nodes)
              THEN <<[arcname |-> arcname, dir |-> TRUE, size |-> 0]>>
              ELSE <<>>)
             \o ZipEntries(Tail(walk), nodes)

\* the bytes of the archive file: for each entry a header and its data, then
\* the end record; the number of the entry marks its bytes
RECURSIVE ZipBytes(_, _)
ZipBytes(entries, k) ==
    IF entries = <<>> THEN <<0>>
    ELSE <<0 - k>> \o [i \in 1..Head(entries).size |-> k] \o ZipBytes(Tail(entries), k + 1)

ZipTreeInit ==
    /\ shared \in {f \in SharedStates : f.mtime = 0 /\ f.content = <<>>}
    /\ dir_cache = <<>> /\ now = 0 /\ request = None /\ response = None
    /\ ClientUnused
    /\ BatchUnused
    /\ ConcUnused /\ HealthUnused /\ ManagerUnused
    /\ tree \in {Some([nodes |-> t, dir_mtime |-> 0, changed_at |-> 0]) : t \in ListingTrees}
    /\ built_at = <<>> /\ index_call = None /\ ref_list = None
    /\ platform \in Platforms
    /\ tmp_files = {} /\ hpc = "idle" /\ zip_req = 0 /\ zip_out = None

\* lines 306-339: the request is dispatched, the temporary file created and
\* the archive written into it from what rglob yields, or rglob raises; then
\* Content-Length is set from the file's size and the headers are flushed
ZipTreeBuild(walk, rglob_ok) ==
    /\ hpc = "idle"
    /\ zip_req' = zip_req + 1
    /\ IF rglob_ok
       THEN LET entries == ZipEntries(walk, tree[1].nodes)
            IN  /\ zip_out' = Some([status |-> 200, flushed |-> TRUE, entries |-> entries,
                                    archive |-> ZipBytes(entries, 1),
                                    content_length |-> Some(Len(ZipBytes(entries, 1))),
                                    body |-> <<>>, left |-> "running"])
                /\ tmp_files' = tmp_files \cup {zip_req + 1}
                /\ hpc' = "stream"
       ELSE /\ zip_out' = Some([status |-> 200, flushed |-> FALSE, entries |-> <<>>,
                                archive |-> <<>>, content_length |-> None,
                                body |-> <<>>, left |-> "raise"])
            /\ tmp_files' = UnlinkHeldOpen(tmp_files \cup {zip_req + 1}, zip_req + 1, platform)
            /\ hpc' = "exited"
    /\ UNCHANGED <<healthVars, managerVars, serverVars, clientVars, batchVars, indexVars,
                   concVars, platform>>

\* lines 341-347: one chunk is read and written, or wfile.write raises
ZipTreeWriteChunk(ok) ==
    /\ hpc = "stream"
    /\ "archive" \in DOMAIN zip_out[1]
    /\ Len(zip_out[1].body) < Len(zip_out[1].archive)
    /\ IF ok
       THEN /\ zip_out' = Some([zip_out[1] EXCEPT
                                  !.body = @ \o ReadAt(zip_out[1].archive, Len(@), ZipChunk)])
            /\ UNCHANGED <<tmp_files, hpc>>
       ELSE /\ tmp_files' = UnlinkHeldOpen(tmp_files, zip_req, platform)
            /\ hpc' = "exited"
            /\ zip_out' = Some([zip_out[1] EXCEPT !.left = "raise"])
    /\ UNCHANGED <<healthVars, managerVars, serverVars, clientVars, batchVars, indexVars,
                   concVars, platform, zip_req>>

\* lines 345-353: read returns nothing; the finally clause runs
ZipTreeFinish ==
    /\ hpc = "stream"
    /\ "archive" \in DOMAIN zip_out[1]
    /\ Len(zip_out[1].body) = Len(zip_out[1].archive)
    /\ tmp_files' = UnlinkHeldOpen(tmp_files, zip_req, platform)
    /\ hpc' = "exited"
    /\ zip_out' = Some([zip_out[1] EXCEPT !.left = "return"])
    /\ UNCHANGED <<healthVars, managerVars, serverVars, clientVars, batchVars, indexVars,
                   concVars, platform, zip_req>>

ZipTreeNext ==
    \/ \E walk \in WalkOrders(tree[1].nodes), rglob_ok \in BOOLEAN : ZipTreeBuild(walk, rglob_ok)
    \/ \E ok \in BOOLEAN : ZipTreeWriteChunk(ok)
    \/ ZipTreeFinish

SpecZipTree == ZipTreeInit /\ [][ZipTreeNext]_vars

\* the entries of an archive written for the node
ZipEntriesFor(entries, node) ==
    {i \in DOMAIN entries :
        /\ entries[i].arcname = <<RootName>> \o node.parts
        /\ entries[i].dir = (node.type = "folder")
        /\ entries[i].size = IF node.type = "file" THEN node.size ELSE 0}

\* the nodes the archive is to hold: the readable files and the readable
\* directories with nothing in them
Archived ==
    {n \in tree[1].nodes :
        /\ n.readable
        /\ n.type = "folder" => ~\E m \in tree[1].nodes \ {n} :
                                    /\ Len(m.parts) > Len(n.parts)
                                    /\ \A i \in 1..Len(n.parts) : m.parts[i] = n.parts[i]}

\* C36: the archive of download-archive holds exactly one entry for every
\* readable file and one entry without data for every empty directory, and
\* nothing else; a node that cannot be read is left out and the archive is
\* still served; the Content-Length sent is the size of the archive, and when
\* the handler returns it is the number of bytes streamed.
C36_ArchiveContents ==
    (zip_out # None /\ zip_out[1].flushed) =>
        LET out == zip_out[1]
        IN  /\ Len(out.entries) = Cardinality(Archived)
            /\ \A n \in Archived : Cardinality(ZipEntriesFor(out.entries, n)) = 1
            /\ out.content_length = Some(Len(out.archive))
            /\ IsPrefix(out.body, out.archive)
            /\ out.left = "return" => Len(out.body) = out.content_length[1]

\* an archive was streamed to its end for a tree with a readable file, an
\* unreadable file and the directory that holds it: its one entry is the file
C36_Witness ==
    /\ hpc = "exited" /\ zip_out # None /\ zip_out[1].left = "return"
    /\ \E n \in tree[1].nodes : ~n.readable /\ n.type = "file"
    /\ \E n \in tree[1].nodes : n.type = "folder" /\ n \notin Archived
    /\ Len(zip_out[1].entries) = 1
    /\ zip_out[1].entries[1].size > 0

(* ------------- server.py: _get_cached_file_list over time -------------- *)
\* roots beyond the cache's capacity
ExtraRoots == 1
\* the clock is read at multiples of half the TTL, up to this many
MaxTicks == 4

HalfTTL == CacheTTL \div 2

\* the directories served by the process, beyond the cache's capacity
OtherRoots == <<"r1", "r2", "r3", "r4", "r5", "r6", "r7", "r8">>

OtherKeys == {OtherRoots[i] : i \in 1..(CacheKeep + ExtraRoots)}

\* the tree under base_dir at the start: the folder D holding one file
StartTree ==
    [nodes |-> {FolderNode(<<"D">>, 0), FileNode(<<"D", "a">>, 2, 0)},
     dir_mtime |-> 0, changed_at |-> 0]

IndexInit ==
    /\ shared \in {f \in SharedStates : f.mtime = 0 /\ f.content = <<>>}
    /\ dir_cache = <<>> /\ now = 0 /\ request = None /\ response = None
    /\ ClientUnused
    /\ BatchUnused
    /\ ZipUnused /\ ConcUnused /\ HealthUnused /\ ManagerUnused
    /\ tree = Some(StartTree)
    /\ built_at = <<>> /\ index_call = None /\ ref_list = None

\* time passes
Tick(d) ==
    /\ now + d <= MaxTicks * HalfTTL
    /\ now' = now + d
    /\ UNCHANGED <<healthVars, managerVars, shared, dir_cache, request, response, clientVars, batchVars, zipVars, concVars,
                   indexVars>>

\* a file is created in base_dir itself: the directory's mtime becomes now
AddTop ==
    /\ now > tree[1].dir_mtime
    /\ FileNode(<<"a">>, 1, now) \notin tree[1].nodes
    /\ \A n \in tree[1].nodes : n.parts # <<"a">>
    /\ tree' = Some([nodes |-> tree[1].nodes \cup {FileNode(<<"a">>, 1, now)},
                     dir_mtime |-> now, changed_at |-> now])
    /\ ref_list' = None
    /\ UNCHANGED <<healthVars, managerVars, serverVars, clientVars, batchVars, zipVars, concVars, built_at, index_call>>

\* the file D/a grows: base_dir's own mtime stays what it was
TouchNested ==
    /\ now > tree[1].changed_at
    /\ FileNode(<<"D", "a">>, 2, 0) \in tree[1].nodes
    /\ tree' = Some([tree[1] EXCEPT
                       !.nodes = (@ \ {FileNode(<<"D", "a">>, 2, 0)})
                                    \cup {FileNode(<<"D", "a">>, 3, now)},
                       !.changed_at = now])
    /\ ref_list' = None
    /\ UNCHANGED <<healthVars, managerVars, serverVars, clientVars, batchVars, zipVars, concVars, built_at, index_call>>

\* what the call records besides the cache: the list returned, whether the
\* tree was walked, and the time the returned list was built
RecordCall(key, got, dir_mtime, root_mtime, root_changed) ==
    /\ dir_cache' = got.cache
    /\ built_at' = IF got.built THEN (key :> now) @@ built_at ELSE built_at
    /\ index_call' = Some([key |-> key, time |-> now, before |-> dir_cache,
                           data |-> got.data, built |-> got.built, rglob_ok |-> TRUE,
                           dir_mtime |-> dir_mtime, root_mtime |-> root_mtime,
                           root_changed |-> root_changed,
                           data_built |-> IF got.built THEN now ELSE built_at[key]])

\* _get_cached_file_list(base_dir) is called; getmtime_ok is FALSE when
\* os.path.getmtime raises
GetIndexBase(getmtime_ok) ==
    /\ tree # None
    /\ \E walk \in WalkOrders(tree[1].nodes) :
         LET dir_mtime == IF getmtime_ok THEN Some(tree[1].dir_mtime) ELSE None
             got == GetCachedFileList(dir_cache, "base_dir", now, dir_mtime, walk, TRUE)
             i   == CacheIndex(got.cache, "base_dir")
         IN  /\ got.cache[i].hits <= MaxHits
             /\ RecordCall("base_dir", got, dir_mtime, tree[1].dir_mtime, tree[1].changed_at)
             /\ ref_list' = IF ref_list = None THEN Some(got.data) ELSE ref_list
    /\ UNCHANGED <<healthVars, managerVars, shared, now, request, response, clientVars, batchVars, zipVars, concVars, tree>>

IndexNext ==
    \/ \E d \in {HalfTTL, CacheTTL} : Tick(d)
    \/ AddTop
    \/ TouchNested
    \/ \E getmtime_ok \in BOOLEAN : GetIndexBase(getmtime_ok)

SpecIndex == IndexInit /\ [][IndexNext]_vars

(* ------------- properties of _get_cached_file_list --------------------- *)
\* the snapshot the last call found for its root (position 0: none), and the
\* one it left
FoundAt == CacheIndex(index_call[1].before, index_call[1].key)

Found == index_call[1].before[FoundAt]

Left == dir_cache[CacheIndex(dir_cache, index_call[1].key)]

\* the last call found a snapshot younger than the TTL
FoundFresh == FoundAt # 0 /\ index_call[1].time - Found.timestamp < CacheTTL

\* the last call found a snapshot recorded under the root's present mtime
FoundSameMtime ==
    /\ FoundAt # 0
    /\ index_call[1].dir_mtime # None
    /\ Found.dir_mtime = index_call[1].root_mtime

\* C15: as long as the tree under base_dir does not change, every list call
\* returns the sequence the first of them returned (hence the same ETag),
\* whether a cache hit, an mtime-refresh hit or a rebuild serves it.
C15_ListingIdempotent ==
    (index_call # None /\ index_call[1].key = "base_dir" /\ ref_list # None) =>
        /\ index_call[1].data = ref_list[1]
        /\ ListETag(JsonDumps(index_call[1].data)) = ListETag(JsonDumps(ref_list[1]))

\* C17: a call that finds a snapshot for its root which is younger than the
\* TTL, or recorded under the root's present mtime, returns that snapshot's
\* list without walking the tree; in the second case (alone) the timestamp
\* becomes the current time and nothing else of the snapshot changes.  Every
\* other call walks the tree and replaces the snapshot.
C17_ReusePolicy ==
    index_call # None =>
        LET c == index_call[1]
        IN  /\ (FoundFresh \/ FoundSameMtime) =>
                   /\ ~c.built
                   /\ c.data = Found.data
                   /\ Left.data = Found.data
            /\ (~FoundFresh /\ FoundSameMtime) =>
                   Left = [Found EXCEPT !.timestamp = c.time]
            /\ ~(FoundFresh \/ FoundSameMtime) =>
                   /\ c.built
                   /\ Left.data = c.data
                   /\ Left.timestamp = c.time
                   /\ Left.hits = 0

\* an expired snapshot reused because base_dir's mtime is the recorded one
C17_Witness ==
    /\ index_call # None
    /\ index_call[1].key = "base_dir"
    /\ ~FoundFresh /\ FoundSameMtime
    /\ ~index_call[1].built
    /\ Left.timestamp = index_call[1].time
    /\ Left.timestamp > Found.timestamp

\* C18: a call made when the snapshot has expired by TTL returns a list built
\* by that call, and a call made after the root's mtime changed returns a
\* list built no earlier than that change.
C18_Freshness ==
    (index_call # None /\ index_call[1].key = "base_dir") =>
        LET c == index_call[1]
        IN  /\ (FoundAt # 0 /\ c.time - Found.timestamp >= CacheTTL) => c.data_built = c.time
            /\ c.data_built >= c.root_mtime

(* ------------- server.py: _get_cached_file_list over many roots -------- *)
\* The cache is class-level: it is keyed by the directory served, and holds
\* the snapshots of every directory the process has served.
EvictInit ==
    /\ shared \in {f \in SharedStates : f.mtime = 0 /\ f.content = <<>>}
    /\ dir_cache = <<>> /\ now = 0 /\ request = None /\ response = None
    /\ ClientUnused
    /\ BatchUnused
    /\ ZipUnused /\ ConcUnused /\ HealthUnused /\ ManagerUnused
    /\ IndexUnused

\* _get_cached_file_list(root) for the n-th root, an empty directory that
\* never changes.  The roots are first served in order; the first two are
\* also served again later.
GetIndexOther(n) ==
    /\ OtherRoots[n] \in OtherKeys
    /\ n > 1 => OtherRoots[n - 1] \in DOMAIN built_at
    /\ OtherRoots[n] \in DOMAIN built_at => n <= 2
    /\ LET key == OtherRoots[n]
           got == GetCachedFileList(dir_cache, key, now, Some(0), <<>>, TRUE)
           i   == CacheIndex(got.cache, key)
       IN  /\ got.cache[i].hits <= MaxHits
           /\ RecordCall(key, got, Some(0), 0, 0)
    /\ UNCHANGED <<healthVars, managerVars, shared, now, request, response, clientVars, batchVars, zipVars, concVars, tree,
                   ref_list>>

EvictNext ==
    \/ \E d \in {HalfTTL, CacheTTL} : Tick(d)
    \/ \E n \in DOMAIN OtherRoots : GetIndexOther(n)

SpecEvict == EvictInit /\ [][EvictNext]_vars

(* ------------- properties of the cache's capacity ---------------------- *)
CachedKeys(cache) == {cache[i].key : i \in DOMAIN cache}

\* C19: after every call the cache holds at most 5 snapshots, of distinct
\* roots, the requested root's among them; a call that finds the cache full
\* and its root absent evicts exactly one snapshot, one whose timestamp no
\* other snapshot found undercuts.
C19_Capacity ==
    /\ Len(dir_cache) <= CacheKeep
    /\ \A i, j \in DOMAIN dir_cache : dir_cache[i].key = dir_cache[j].key => i = j
    /\ index_call # None =>
           LET c == index_call[1]
           IN  /\ c.key \in CachedKeys(dir_cache)
               /\ (Len(c.before) = CacheKeep /\ FoundAt = 0) =>
                      \E m \in DOMAIN c.before :
                          /\ CachedKeys(dir_cache)
                                 = (CachedKeys(c.before) \ {c.before[m].key}) \cup {c.key}
                          /\ \A n \in DOMAIN c.before :
                                 c.before[m].timestamp <= c.before[n].timestamp
               /\ ~(Len(c.before) = CacheKeep /\ FoundAt = 0) =>
                      CachedKeys(dir_cache) = CachedKeys(c.before) \cup {c.key}

\* the sixth root was served with the cache full: the snapshot evicted is
\* the second root's, the first root's having been refreshed since
C19_Witness ==
    /\ index_call # None
    /\ Len(index_call[1].before) = CacheKeep
    /\ FoundAt = 0
    /\ OtherRoots[1] \in CachedKeys(dir_cache)
    /\ OtherRoots[2] \notin CachedKeys(dir_cache)
    /\ index_call[1].key \in CachedKeys(dir_cache)

(* ------------- server.py: _handle_file_list on a long listing ---------- *)
ListFiles == 12

\* the names of the files of a flat shared folder
FileNames ==
    <<"f01", "f02", "f03", "f04", "f05", "f06", "f07", "f08", "f09", "f10",
      "f11", "f12", "f13", "f14">>

\* the listing of `n` files in the root, the first `big` of them of six-digit
\* size and the others of five-digit size, as _build_file_list returns it
LongList(n, big) ==
    [i \in 1..n |->
        [name |-> FileNames[i], path |-> <<FileNames[i]>>, type |-> "file",
         size |-> IF i <= big THEN 100000 ELSE 10000, modified |-> 0,
         extension |-> ""]]

LongLists == {LongList(n, big) : n \in (ListFiles - 1)..ListFiles, big \in 0..ListFiles}

\* list requests for a listing: without If-None-Match, with the listing's
\* ETag and with another listing's; and what gzip.compress does if called
LongListProbes(listing) ==
    [target  : {ListTarget},
     headers : [range : {None},
                if_none_match : {None, Some(ListETag(JsonDumps(listing))),
                                 Some(ListETag(JsonDumps(<<>>)))}],
     gzip    : GzipOutcomes(JsonLen(listing))]

\* the cache holds a snapshot of the listing, just built; a request waits
CompressInit ==
    /\ shared \in {s \in SharedStates : s.content = <<>> /\ s.mtime = 0}
    /\ \E listing \in LongLists :
         /\ dir_cache = <<[key |-> "base_dir", data |-> listing, timestamp |-> 0,
                           dir_mtime |-> 0, size |-> Len(listing), hits |-> 0]>>
         /\ request \in {Some(req) : req \in LongListProbes(listing)}
    /\ now = 0
    /\ response = None
    /\ ClientUnused
    /\ BatchUnused
    /\ ZipUnused /\ IndexUnused /\ ConcUnused /\ HealthUnused /\ ManagerUnused

\* do_GET dispatching to _handle_file_list, the snapshot younger than the TTL
CompressGetList ==
    /\ response = None
    /\ Dispatch(request[1].target) = "list"
    /\ LET req == request[1]
           got == GetCachedFileList(dir_cache, "base_dir", now, Some(shared.dir_mtime),
                                    <<>>, TRUE)
       IN  /\ dir_cache' = got.cache
           /\ response' = Some(ListResponse(got.data, req.headers, req.gzip))
    /\ UNCHANGED <<healthVars, managerVars, shared, now, request, clientVars, batchVars, zipVars, concVars, indexVars>>

\* the next list request arrives
CompressArrive ==
    /\ response # None
    /\ dir_cache[1].hits < MaxHits
    /\ \E req \in LongListProbes(dir_cache[1].data) : request' = Some(req)
    /\ response' = None
    /\ UNCHANGED <<healthVars, managerVars, shared, dir_cache, now, clientVars, batchVars, zipVars, concVars, indexVars>>

CompressNext ==
    \/ CompressGetList
    \/ CompressArrive

SpecCompress == CompressInit /\ [][CompressNext]_vars

(* ------------- properties of the list response's encoding -------------- *)
\* a 200 answer to the list request at hand
ListServed ==
    /\ request # None /\ response # None
    /\ response[1].status = 200

\* the JSON of the listing the answer is about
ListJson == JsonDumps(dir_cache[1].data)

\* compression was tried and gave a result of at most 90% of the JSON
SavesTenPercent ==
    /\ request[1].gzip # None
    /\ 10 * request[1].gzip[1] <= 9 * ListJson.len

\* compression was tried and gave a result of less than 90% of the JSON
SavesOverTenPercent ==
    /\ request[1].gzip # None
    /\ 10 * request[1].gzip[1] < 9 * ListJson.len

\* what the claims below share: the header and the body agree, Content-Length
\* counts the body, the ETag is the hash of the uncompressed JSON
EncodingConsistent ==
    LET r == response[1]
    IN  /\ r.content_encoding = Some("gzip") <=> r.body[1].kind = "gzip"
        /\ r.content_encoding = None => r.body[1] = ListJson
        /\ r.content_encoding = Some("gzip") =>
               r.body[1] = GzipCompress(ListJson, request[1].gzip[1])
        /\ r.content_length = Some(r.body[1].len)
        /\ r.etag = Some(ListETag(ListJson))

\* C20: the list response is gzip-compressed, with Content-Encoding: gzip, if
\* and only if the JSON exceeds 1024 bytes and the compressed size is at most
\* 90% of it; otherwise the JSON is sent as it is; either way Content-Length
\* is the number of body bytes and the ETag the hash of the uncompressed JSON.
C20_CompressionAtLeastTenPercent ==
    ListServed =>
        /\ response[1].content_encoding = Some("gzip")
               <=> (ListJson.len > CompressThreshold /\ SavesTenPercent)
        /\ EncodingConsistent

\* C20 as amended: if and only if the JSON exceeds 1024 bytes and the
\* compressed size is less than 90% of it.
C20_CompressionOverTenPercent ==
    ListServed =>
        /\ response[1].content_encoding = Some("gzip")
               <=> (ListJson.len > CompressThreshold /\ SavesOverTenPercent)
        /\ EncodingConsistent

\* a listing of more than 1024 bytes compressed to one byte less than 90% is
\* sent compressed
C20_Witness ==
    /\ ListServed
    /\ ListJson.len > CompressThreshold
    /\ request[1].gzip # None
    /\ 10 * (request[1].gzip[1] + 1) >= 9 * ListJson.len
    /\ response[1].content_encoding = Some("gzip")
    /\ response[1].content_length = Some(request[1].gzip[1])

(* ------------- server.py: do_GET over the shapes of a target ----------- *)
\* the paths tried: the three endpoints as they are, percent-encoded, with
\* a trailing slash, and paths of the static tree
TargetPaths ==
    {"/api/files", "/download_all", "/download", "/", "/a", "/api/files/",
     "/api%2Ffiles", "/download%5Fall", "/download%3Ffile=a"}

\* the queries tried: none, and queries with or without a leading "file="
\* and with or without a non-blank value for "file"
TargetQueries ==
    {None} \cup {Some(q) : q \in [leads : BOOLEAN,
                                  file  : {None, Some(<<"a">>), Some(<<"..", "a">>)}]}

Targets == [path : TargetPaths, query : TargetQueries]

\* a request waits for do_GET
DispatchInit ==
    /\ shared \in {s \in SharedStates : s.content = <<>> /\ s.mtime = 0}
    /\ dir_cache = <<>>
    /\ now = 0
    /\ request \in {Some([target |-> t]) : t \in Targets}
    /\ response = None
    /\ ClientUnused
    /\ BatchUnused
    /\ ZipUnused /\ IndexUnused /\ ConcUnused /\ HealthUnused /\ ManagerUnused

\* lines 148-160: the handler do_GET calls, and the argument it passes
DoGet ==
    /\ response = None
    /\ LET target == request[1].target
       IN  response' = Some([handler  |-> Dispatch(target),
                             filepath |-> IF Dispatch(target) = "download"
                                          THEN Some(FileParam(target)) ELSE None])
    /\ UNCHANGED <<healthVars, managerVars, shared, dir_cache, now, request, clientVars, batchVars, zipVars, concVars, indexVars>>

\* the next request arrives
DispatchArrive ==
    /\ response # None
    /\ \E t \in Targets : request' = Some([target |-> t])
    /\ response' = None
    /\ UNCHANGED <<healthVars, managerVars, shared, dir_cache, now, clientVars, batchVars, zipVars, concVars, indexVars>>

DispatchNext ==
    \/ DoGet
    \/ DispatchArrive

SpecDispatch == DispatchInit /\ [][DispatchNext]_vars

(* ------------- properties of do_GET ------------------------------------ *)
\* the target of the request at hand, once do_GET has called a handler
Dispatched == request # None /\ response # None

Target == request[1].target

Ancestors(exc) ==
    {exc, "Exception", "BaseException"} \cup
    CASE exc = "Timeout"              -> {"RequestException", "OSError"}
      [] exc = "ConnectTimeout"       -> {"ConnectionError", "Timeout", "RequestException", "OSError"}
      [] exc = "ConnectionError"      -> {"RequestException", "OSError"}
      [] exc = "HTTPError"            -> {"RequestException", "OSError"}
      [] exc = "ContentDecodingError" -> {"RequestException", "OSError"}
      [] exc = "ChunkedEncodingError" -> {"RequestException", "OSError"}
      [] exc = "JSONDecodeError"      -> {"ValueError"}
      [] exc = "BadGzipFile"          -> {"OSError"}
      [] exc = "PermissionError"      -> {"OSError"}
      [] OTHER                        -> {}

\* the first except clause of `clauses` (each a set of classes) that catches
\* exc; 0 when none does
FirstHandler(clauses, exc) ==
    LET catching == {i \in DOMAIN clauses : clauses[i] \cap Ancestors(exc) # {}}
    IN  IF catching = {} THEN 0 ELSE CHOOSE i \in catching : \A j \in catching : i <= j

(* ------------- client.py: list_files ----------------------------------- *)
\* a body that is neither JSON nor a gzip stream
Garbage == [kind |-> "garbage", of |-> <<>>, len |-> 1]

\* a gzip stream cut before its end
Truncated(doc) == [kind |-> "truncated", of |-> doc, len |-> doc.len - 1]

\* the listings behind the responses the client gets
ClientLists == LongLists \cup {<<>>, LongList(1, 0)}

\* the bodies a sender other than _handle_file_list may write
ForeignBodies ==
    LET texts == {JsonDumps(<<>>), JsonDumps(LongList(1, 0)), Garbage}
        once  == {GzipCompress(t, t.len) : t \in texts}
    IN  texts \cup once \cup {GzipCompress(g, g.len) : g \in once}
              \cup {Truncated(g) : g \in once}
              \cup {GzipCompress(Truncated(g), g.len) : g \in once}

\* the responses a list request may get: those of _handle_file_list, and
\* those of another sender (a proxy, another service on the port)
ListAnswers ==
    UNION {{ListResponse(l, NoHeaders, gzip) : gzip \in {None, Some(JsonLen(l) \div 4)}} :
               l \in ClientLists}
    \cup {[status |-> st, etag |-> None, content_range |-> None, content_encoding |-> ce,
           content_length |-> Some(b.len), body |-> <<b>>, error_page |-> st # 200,
           late_error |-> None, log |-> <<>>] :
              st \in {200, 404, 500}, ce \in {None, Some("gzip")}, b \in ForeignBodies}

\* response.content: the body after the transport has undone the
\* Content-Encoding the response names.  None: the body is not a gzip stream
\* and reading it raises ContentDecodingError; a stream cut short gives the
\* part it held, which is no document
HttpContent(r) ==
    LET body == r.body[1]
    IN  IF r.content_encoding # Some("gzip") THEN Some(body)
        ELSE IF body.kind = "gzip" THEN Some(body.of)
        ELSE IF body.kind = "truncated" THEN Some(Garbage)
        ELSE None

\* gzip.decompress(content): the data, or the exception raised
GzipDecompress(content) ==
    CASE content.kind = "gzip"      -> [data |-> Some(content.of), raised |-> None]
      [] content.kind = "truncated" -> [data |-> None, raised |-> Some("EOFError")]
      [] OTHER                      -> [data |-> None, raised |-> Some("BadGzipFile")]

\* json.loads / response.json(): the value, None when the text is not JSON
JsonLoads(content) == IF content.kind = "json" THEN Some(content.of) ELSE None

\* the except clauses without the last one
ListFilesHandlersNoCatchAll ==
    <<{"Timeout"}, {"ConnectionError"}, {"JSONDecodeError"}, {"BadGzipFile", "OSError"}>>

\* the except clauses of lines 73-85, in order
ListFilesHandlers ==
    <<{"Timeout"}, {"ConnectionError"}, {"JSONDecodeError"}, {"BadGzipFile", "OSError"},
      {"Exception"}>>

\* the messages their handlers return
ListFilesMessages ==
    <<"Connection timed out. Check IP and Port.", "Failed to connect. Is the server running?",
      "Invalid response format from server.", "Error processing server response",
      "Unexpected error">>

\* lines 51-62 for the content read: the list parsed (value), the failure
\* returned from the innermost except (returned), or the exception that
\* leaves the block (raised)
ListFilesParse(marked, content) ==
    LET parsed(text) ==
            IF JsonLoads(text) # None
            THEN [value |-> JsonLoads(text), returned |-> None, raised |-> None]
            ELSE [value |-> None, returned |-> None, raised |-> Some("JSONDecodeError")]
        d == GzipDecompress(content)
    IN  IF ~marked THEN parsed(content)
        ELSE IF d.raised = None THEN parsed(d.data[1])
        ELSE IF FirstHandler(<<{"BadGzipFile", "OSError"}>>, d.raised[1]) = 0
             THEN [value |-> None, returned |-> None, raised |-> d.raised]
        ELSE IF JsonLoads(content) # None
             THEN [value |-> JsonLoads(content), returned |-> None, raised |-> None]
        ELSE [value |-> None, returned |-> Some("Failed to decompress server response"),
              raised |-> None]

\* the endpoints a client talks to
Endpoints == {<<"10.0.0.1", "8000">>, <<"10.0.0.2", "8000">>}

\* client.py lines 37-39: f"{ip}:{port}"
GetCacheKey(ip, port) == <<ip, ":", port>>

EndpointKeys == {GetCacheKey(e[1], e[2]) : e \in Endpoints}

\* line 34: the empty cache
NoRecords == [key \in EndpointKeys |-> None]

\* lines 65-70: the record written after a list was parsed
RecordSeen(cache, cache_key, list, time) ==
    [cache EXCEPT ![cache_key] = Some([last_seen |-> time, file_count |-> Len(list),
                                       responsive |-> TRUE])]

\* the connection-error handler writing a record whether one exists or not
RecordUnresponsiveAlways(cache, cache_key) ==
    [cache EXCEPT ![cache_key] =
        IF @ = None THEN Some([last_seen |-> 0, file_count |-> 0, responsive |-> FALSE])
        ELSE Some([@[1] EXCEPT !.responsive = FALSE])]

\* lines 76-78: the connection-error handler marks a record that exists
RecordUnresponsive(cache, cache_key) ==
    IF cache[cache_key] # None
    THEN [cache EXCEPT ![cache_key] = Some([@[1] EXCEPT !.responsive = FALSE])]
    ELSE cache

\* an exception raised inside the try of list_files reaches lines 73-85
ListFilesExcept(exc) ==
    LET i == FirstHandler(ListFilesHandlers, exc)
    IN  /\ lastError' = Some(exc)
        /\ connection_cache' = IF i = 2
                               THEN RecordUnresponsive(connection_cache, call[1].key)
                               ELSE connection_cache
        /\ IF i = 0
           THEN pc' = "list_raised" /\ result' = None
           ELSE /\ pc' = "list_done"
                /\ result' = Some([success |-> FALSE, message |-> ListFilesMessages[i],
                                   detail |-> None])

\* list_files is called: the answer the request will get, and what the
\* connection does
ListInit ==
    /\ shared \in {f \in SharedStates : f.mtime = 0 /\ f.content = <<>>}
    /\ dir_cache = <<>> /\ now = 0 /\ request = None
    /\ response \in {Some(r) : r \in ListAnswers}
    /\ localFile = None /\ sidecar = None
    /\ call \in {Some([op |-> "list_files", transport |-> t,
                         key |-> GetCacheKey("10.0.0.1", "8000")]) :
                    t \in {"none", "Timeout", "ConnectTimeout", "ConnectionError"}}
    /\ pc = "list_get"
    /\ retry_count = 0 /\ stream = <<>> /\ result = None /\ calls = 1
    /\ before = None /\ attempts = 0 /\ connFailures = 0 /\ lastError = None
    /\ sent = None /\ lastStatus = None /\ xfer = None /\ progress = None
    /\ BatchUnused
    /\ ZipUnused /\ IndexUnused /\ ConcUnused /\ connection_cache = NoRecords /\ ManagerUnused

\* lines 47-48: session.get(url, timeout=15), which reads the body, and
\* raise_for_status()
ListFilesGet ==
    /\ pc = "list_get"
    /\ LET r == response[1]
       IN  IF call[1].transport # "none"
           THEN ListFilesExcept(call[1].transport) /\ UNCHANGED <<stream, lastStatus>>
           ELSE IF HttpContent(r) = None
           THEN ListFilesExcept("ContentDecodingError") /\ UNCHANGED <<stream, lastStatus>>
           ELSE IF r.status >= 400
           THEN /\ ListFilesExcept("HTTPError")
                /\ lastStatus' = Some(r.status)
                /\ UNCHANGED stream
           ELSE /\ pc' = "list_decode"
                /\ stream' = HttpContent(r)
                /\ lastStatus' = Some(r.status)
                /\ UNCHANGED <<result, lastError, connection_cache>>
    /\ sent' = Some([method |-> "GET", key |-> call[1].key, path |-> "/api/files"])
    /\ UNCHANGED <<managerVars, serverVars, batchVars, zipVars, concVars, indexVars, localFile,
                   sidecar, call, retry_count, calls, before, attempts, connFailures, xfer,
                   progress>>

\* lines 51-72: the body is decoded and the list returned
ListFilesDecode ==
    /\ pc = "list_decode"
    /\ LET parse == ListFilesParse(response[1].content_encoding = Some("gzip"), stream[1])
       IN  IF parse.raised # None THEN ListFilesExcept(parse.raised[1])
           ELSE /\ pc' = "list_done"
                /\ lastError' = None
                /\ result' = IF parse.value # None
                             THEN Some([success |-> TRUE, message |-> "", detail |-> parse.value])
                             ELSE Some([success |-> FALSE, message |-> parse.returned[1],
                                        detail |-> None])
                /\ connection_cache' =
                       IF parse.value # None
                       THEN RecordSeen(connection_cache, call[1].key, parse.value[1], now)
                       ELSE connection_cache
    /\ UNCHANGED <<managerVars, serverVars, batchVars, zipVars, concVars, indexVars, localFile, sidecar, call,
                   retry_count, stream, calls, before, attempts, connFailures, sent,
                   lastStatus, xfer, progress>>

ListFilesNext ==
    \/ ListFilesGet
    \/ ListFilesDecode

SpecList == ListInit /\ [][ListFilesNext]_vars

(* ------------- properties of list_files -------------------------------- *)
\* list_files has received a 200 response and has ended
ListAnswered ==
    /\ pc \in {"list_done", "list_raised"}
    /\ call[1].transport = "none"
    /\ response[1].status = 200

\* the response body is JSON text, or the response is marked gzip and its
\* body is the gzip stream of JSON text
BodyIsJson ==
    LET body == response[1].body[1]
    IN  \/ body.kind = "json"
        \/ /\ response[1].content_encoding = Some("gzip")
           /\ body.kind = "gzip" /\ body.of.kind = "json"

\* the list a body encodes, under whatever layers of gzip (None: no list)
RECURSIVE Encoded(_)
Encoded(doc) ==
    IF doc.kind = "json" THEN Some(doc.of)
    ELSE IF doc.kind = "gzip" THEN Encoded(doc.of)
    ELSE None

\* C21: list_files accepts compressed and uncompressed bodies; a response
\* marked gzip whose body does not decompress is parsed as uncompressed JSON,
\* and the call fails only if that parse fails too; the list returned is the
\* one the sender encoded.
C21_ListDecoding ==
    ListAnswered =>
        /\ BodyIsJson => pc = "list_done" /\ result[1].success
        /\ (pc = "list_done" /\ result[1].success) =>
               result[1].detail = Encoded(response[1].body[1])

(* ------------- client.py: the public operations under failure --------- *)
\* A try statement: its except clauses in order, and what each handler does:
\* the message of the (False, message) it returns, or "" when the operation
\* goes on after it (pass, a fallback, a retry, a counted failure).
TryOf(clauses, handlers) == [clauses |-> clauses, handlers |-> handlers]

\* list_files: lines 46-85, 52-60 and 57-60
ListFilesTry == TryOf(ListFilesHandlers, ListFilesMessages)
ListFilesGzipTry == TryOf(<<{"BadGzipFile", "OSError"}>>, <<"">>)
ListFilesFallbackTry == TryOf(<<{"BaseException"}>>, <<"Failed to decompress server response">>)

\* download_file: lines 94-190; the retry handler returns after the last retry
DownloadFileTry ==
    TryOf(<<{"ConnectionError", "Timeout"}, {"Exception"}>>, <<"", "Download failed">>)

\* download_all: lines 200-260
DownloadAllTry ==
    TryOf(<<{"ConnectionError", "Timeout"}, {"Exception"}>>, <<"", "Bulk download failed">>)

\* try: ... except: pass
PassTry == TryOf(<<{"BaseException"}>>, <<"">>)

\* download_files_parallel: lines 315-323 around future.result()
FutureResultTry == TryOf(<<{"Exception"}>>, <<"">>)

\* what the network calls raise: timeout, unreachable, a body that cannot
\* be read or decoded
GetRaises == {"Timeout", "ConnectTimeout", "ConnectionError", "ContentDecodingError",
              "ChunkedEncodingError"}

\* what the local file calls raise
FileRaises == {"OSError", "PermissionError"}

\* The places of the public operations where a failure of one of the classes
\* shows as an exception: the operation, the line, the exceptions raised
\* there, and the try statements around the line, innermost first.
RaiseSites ==
    {[op |-> "list_files", line |-> 47, raises |-> GetRaises, trys |-> <<ListFilesTry>>],
     [op |-> "list_files", line |-> 48, raises |-> {"HTTPError"}, trys |-> <<ListFilesTry>>],
     [op |-> "list_files", line |-> 53, raises |-> {"BadGzipFile", "EOFError", "zlib.error"},
      trys |-> <<ListFilesGzipTry, ListFilesTry>>],
     [op |-> "list_files", line |-> 54, raises |-> {"JSONDecodeError", "UnicodeDecodeError"},
      trys |-> <<ListFilesGzipTry, ListFilesTry>>],
     [op |-> "list_files", line |-> 58, raises |-> {"JSONDecodeError"},
      trys |-> <<ListFilesFallbackTry, ListFilesTry>>],
     [op |-> "list_files", line |-> 62, raises |-> {"JSONDecodeError"}, trys |-> <<ListFilesTry>>],
     [op |-> "list_files", line |-> 68, raises |-> {"TypeError"}, trys |-> <<ListFilesTry>>],
     [op |-> "download_file", line |-> 97, raises |-> FileRaises, trys |-> <<DownloadFileTry>>],
     [op |-> "download_file", line |-> 102, raises |-> FileRaises, trys |-> <<DownloadFileTry>>],
     [op |-> "download_file", line |-> 110, raises |-> FileRaises \cup {"UnicodeDecodeError"},
      trys |-> <<PassTry, DownloadFileTry>>],
     [op |-> "download_file", line |-> 115, raises |-> GetRaises, trys |-> <<DownloadFileTry>>],
     [op |-> "download_file", line |-> 131, raises |-> {"HTTPError"}, trys |-> <<DownloadFileTry>>],
     [op |-> "download_file", line |-> 133, raises |-> {"ValueError"}, trys |-> <<DownloadFileTry>>],
     [op |-> "download_file", line |-> 142, raises |-> FileRaises, trys |-> <<PassTry, DownloadFileTry>>],
     [op |-> "download_file", line |-> 148, raises |-> FileRaises \cup {"UnboundLocalError"},
      trys |-> <<DownloadFileTry>>],
     [op |-> "download_file", line |-> 149, raises |-> GetRaises, trys |-> <<DownloadFileTry>>],
     [op |-> "download_file", line |-> 151, raises |-> FileRaises, trys |-> <<DownloadFileTry>>],
     [op |-> "download_file", line |-> 168, raises |-> FileRaises, trys |-> <<PassTry, DownloadFileTry>>],
     [op |-> "download_file", line |-> 187, raises |-> FileRaises, trys |-> <<PassTry>>],
     [op |-> "download_all", line |-> 201, raises |-> GetRaises, trys |-> <<DownloadAllTry>>],
     [op |-> "download_all", line |-> 202, raises |-> {"HTTPError"}, trys |-> <<DownloadAllTry>>],
     [op |-> "download_all", line |-> 204, raises |-> {"ValueError"}, trys |-> <<DownloadAllTry>>],
     [op |-> "download_all", line |-> 210, raises |-> FileRaises, trys |-> <<DownloadAllTry>>],
     [op |-> "download_all", line |-> 213, raises |-> FileRaises, trys |-> <<DownloadAllTry>>],
     [op |-> "download_all", line |-> 214, raises |-> GetRaises, trys |-> <<DownloadAllTry>>],
     [op |-> "download_all", line |-> 216, raises |-> FileRaises, trys |-> <<DownloadAllTry>>],
     [op |-> "download_all", line |-> 240, raises |-> FileRaises, trys |-> <<PassTry>>],
     [op |-> "download_all", line |-> 250, raises |-> FileRaises, trys |-> <<PassTry>>],
     [op |-> "download_all", line |-> 257, raises |-> FileRaises, trys |-> <<PassTry>>],
     [op |-> "download_files_parallel", line |-> 316,
      raises |-> {"KeyError", "TypeError", "RuntimeError"}, trys |-> <<FutureResultTry>>]}

\* an operation runs and is about to meet a failure at one of its lines
OutcomeInit ==
    /\ shared \in {f \in SharedStates : f.mtime = 0 /\ f.content = <<>>}
    /\ dir_cache = <<>> /\ now = 0 /\ request = None /\ response = None
    /\ localFile = None /\ sidecar = None
    /\ call \in {Some([op |-> site.op, site |-> site, exc |-> e]) :
                    site \in RaiseSites, e \in UNION {s.raises : s \in RaiseSites}}
    /\ call[1].exc \in call[1].site.raises
    /\ pc = "op_running"
    /\ retry_count = 0 /\ stream = <<>> /\ result = None /\ calls = 1
    /\ before = None /\ attempts = 0 /\ connFailures = 0 /\ lastError = None
    /\ sent = None /\ lastStatus = None /\ xfer = None /\ progress = None
    /\ BatchUnused
    /\ ZipUnused /\ IndexUnused /\ ConcUnused /\ HealthUnused /\ ManagerUnused

\* the line raises: the exception is in flight at the innermost try
OpRaise ==
    /\ pc = "op_running"
    /\ pc' = "op_unwinding"
    /\ lastError' = Some(call[1].exc)
    /\ xfer' = Some([try |-> 1])
    /\ UNCHANGED <<healthVars, managerVars, serverVars, batchVars, zipVars, concVars, indexVars, localFile, sidecar, call,
                   retry_count, stream, result, calls, before, attempts, connFailures, sent,
                   lastStatus, progress>>

\* a clause of the try statement reached catches the exception: its handler
\* returns (False, message), or the operation goes on
OpCaught ==
    /\ pc = "op_unwinding"
    /\ LET try == call[1].site.trys[xfer[1].try]
           i   == FirstHandler(try.clauses, lastError[1])
       IN  /\ i # 0
           /\ IF try.handlers[i] = ""
              THEN pc' = "op_running_on" /\ result' = None
              ELSE /\ pc' = "op_returned"
                   /\ result' = Some([success |-> FALSE, message |-> try.handlers[i],
                                      detail |-> lastError])
    /\ xfer' = None
    /\ UNCHANGED <<healthVars, managerVars, serverVars, batchVars, zipVars, concVars, indexVars, localFile, sidecar, call,
                   retry_count, stream, calls, before, attempts, connFailures, lastError, sent,
                   lastStatus, progress>>

\* no clause of the try statement reached catches it: it goes to the next
\* try statement outwards, or out of the operation to its caller
OpPropagate ==
    /\ pc = "op_unwinding"
    /\ LET trys == call[1].site.trys
           k    == xfer[1].try
       IN  /\ FirstHandler(trys[k].clauses, lastError[1]) = 0
           /\ IF k < Len(trys)
              THEN pc' = "op_unwinding" /\ xfer' = Some([try |-> k + 1])
              ELSE pc' = "op_escaped" /\ xfer' = None
    /\ UNCHANGED <<healthVars, managerVars, serverVars, batchVars, zipVars, concVars, indexVars, localFile, sidecar, call,
                   retry_count, stream, result, calls, before, attempts, connFailures,
                   lastError, sent, lastStatus, progress>>

OutcomeNext ==
    \/ OpRaise
    \/ OpCaught
    \/ OpPropagate

SpecOutcome == OutcomeInit /\ [][OutcomeNext]_vars

RequestQueueSize == 100

\* min(32, (os.cpu_count() or 1) + 4)
PoolCap == 32
PoolExtra == 4

\* most work items let into the executor's queue
MaxQueued == 101

\* os.cpu_count(): None when it cannot be determined
CpuCounts == {None, Some(64)}

\* ThreadPoolExecutor(max_workers=...)
PoolSize(cpu_count) ==
    Min(PoolCap, (IF cpu_count = None THEN 1 ELSE cpu_count[1]) + PoolExtra)

\* the server is listening; no connection yet
AcceptInit ==
    /\ shared \in {f \in SharedStates : f.mtime = 0 /\ f.content = <<>>}
    /\ dir_cache = <<>> /\ now = 0 /\ request = None /\ response = None
    /\ ClientUnused /\ BatchUnused /\ ZipUnused /\ IndexUnused /\ HealthUnused /\ ManagerUnused
    /\ threads = <<>> /\ lock = 0 /\ walks = <<>>
    /\ \E cpu_count \in CpuCounts :
           conns = Some([max_workers |-> PoolSize(cpu_count), backlog |-> 0, queued |-> 0,
                         active |-> 0])

\* a client connects: the kernel keeps the connection in the listen backlog,
\* and refuses it when the backlog is full
Connect ==
    /\ conns[1].backlog < RequestQueueSize
    /\ conns' = Some([conns[1] EXCEPT !.backlog = @ + 1])
    /\ UNCHANGED <<healthVars, managerVars, serverVars, clientVars, batchVars, zipVars, indexVars, threads, lock, walks>>

\* serve_forever accepts a connection and process_request submits it to the
\* executor, whose work queue takes every item
ProcessRequest ==
    /\ conns[1].backlog > 0
    /\ conns[1].queued < MaxQueued
    /\ conns' = Some([conns[1] EXCEPT !.backlog = @ - 1, !.queued = @ + 1])
    /\ UNCHANGED <<healthVars, managerVars, serverVars, clientVars, batchVars, zipVars, indexVars, threads, lock, walks>>

\* a worker of the executor takes a work item: process_request_thread begins
WorkerTakes ==
    /\ conns[1].queued > 0
    /\ conns[1].active < conns[1].max_workers
    /\ conns' = Some([conns[1] EXCEPT !.queued = @ - 1, !.active = @ + 1])
    /\ UNCHANGED <<healthVars, managerVars, serverVars, clientVars, batchVars, zipVars, indexVars, threads, lock, walks>>

\* process_request_thread ends: the connection is shut down
WorkerDone ==
    /\ conns[1].active > 0
    /\ conns' = Some([conns[1] EXCEPT !.active = @ - 1])
    /\ UNCHANGED <<healthVars, managerVars, serverVars, clientVars, batchVars, zipVars, indexVars, threads, lock, walks>>

AcceptNext ==
    \/ Connect
    \/ ProcessRequest
    \/ WorkerTakes
    \/ WorkerDone

SpecAccept == AcceptInit /\ [][AcceptNext]_vars

(* ------------- properties of the server's connection handling ---------- *)
\* C28: the connections being handled never exceed the pool size
\* min(32, cpu_count + 4), and the connections accepted but not yet handed
\* to a worker are bounded: beyond the bound a connection stays in the
\* listen backlog of 100 or is refused.
C28_BoundedConcurrency ==
    /\ conns[1].active <= conns[1].max_workers
    /\ conns[1].max_workers <= PoolCap
    /\ conns[1].backlog <= RequestQueueSize
    /\ conns[1].queued <= RequestQueueSize

(* ------------- server.py: _cache_lock among handler threads ------------ *)
\* handler threads serving list requests at once
Handlers == 2

HandlerIds == 1..Handlers

\* the thread of HTTPServerManager that calls clear_cache
Manager == Handlers + 1

ThreadIds == HandlerIds \cup {Manager}

\* A thread: where it is; for a handler, the locals current_time and
\* dir_mtime of _get_cached_file_list and the list it returned; (history)
\* whether the thread was blocked on the lock while another thread held it.
\* A handler is at "idle", "acquire" (at the with statement), "lookup"
\* (lines 36-54), "walking" (line 57), "serialize" (line 165), "write"
\* (lines 184-203), "done", or "failed" (the build raised); the manager at
\* "idle", "acquire", "clearing" (line 424) or "done".
NewThread ==
    [pc |-> "idle", current_time |-> 0, dir_mtime |-> None, file_list |-> None,
     waited |-> FALSE]

\* the threads blocked at the with statement are marked when t takes the lock
Blocking(t) ==
    [u \in ThreadIds |->
        IF u # t /\ threads[u].pc = "acquire" THEN [threads[u] EXCEPT !.waited = TRUE]
        ELSE threads[u]]

LockInit ==
    /\ shared \in {f \in SharedStates : f.mtime = 0 /\ Len(f.content) = 1}
    /\ dir_cache = <<>> /\ now = 0 /\ request = None /\ response = None
    /\ ClientUnused /\ BatchUnused /\ ZipUnused /\ IndexUnused /\ HealthUnused /\ ManagerUnused
    /\ threads = [t \in ThreadIds |-> NewThread]
    /\ lock = 0
    /\ walks = <<>>
    /\ conns = None

\* a list request reaches handler t: do_GET, _handle_file_list, and the with
\* statement of _get_cached_file_list
ListRequest(t) ==
    /\ threads[t].pc = "idle"
    /\ threads' = [threads EXCEPT ![t].pc = "acquire"]
    /\ UNCHANGED <<healthVars, managerVars, serverVars, clientVars, batchVars, zipVars, indexVars, lock, walks, conns>>

\* a with statement that enters without the lock being free
LockAcquireAnyway(t) ==
    /\ threads[t].pc = "acquire"
    /\ lock' = t
    /\ threads' = [Blocking(t) EXCEPT ![t].pc = IF t = Manager THEN "clearing" ELSE "lookup"]
    /\ UNCHANGED <<healthVars, managerVars, serverVars, clientVars, batchVars, zipVars, indexVars, walks, conns>>

\* with self._cache_lock: the lock is free and t takes it
LockAcquire(t) ==
    /\ threads[t].pc = "acquire"
    /\ lock = 0
    /\ lock' = t
    /\ threads' = [Blocking(t) EXCEPT ![t].pc = IF t = Manager THEN "clearing" ELSE "lookup"]
    /\ UNCHANGED <<healthVars, managerVars, serverVars, clientVars, batchVars, zipVars, indexVars, walks, conns>>

\* lines 36-54: the snapshot is returned, fresh or revalidated by the
\* directory's mtime, and the with statement releases the lock; or the
\* rebuild begins.  getmtime_ok = FALSE makes os.path.getmtime raise.
Lookup(t, getmtime_ok) ==
    /\ threads[t].pc = "lookup"
    /\ LET dir_mtime == IF getmtime_ok THEN Some(shared.dir_mtime) ELSE None
           got == GetCachedFileList(dir_cache, "base_dir", now, dir_mtime, <<>>, TRUE)
       IN  IF ~got.built
           THEN /\ dir_cache' = got.cache
                /\ threads' = [threads EXCEPT ![t].pc = "serialize",
                                              ![t].file_list = Some(got.data)]
                /\ lock' = 0
                /\ UNCHANGED walks
           ELSE /\ threads' = [threads EXCEPT ![t].pc = "walking",
                                              ![t].current_time = now,
                                              ![t].dir_mtime = dir_mtime]
                /\ walks' = Append(walks, [by |-> t, at |-> now, raised |-> FALSE,
                                           after_clear |-> threads[Manager].pc = "done"])
                /\ UNCHANGED <<dir_cache, lock>>
    /\ UNCHANGED <<healthVars, managerVars, shared, now, request, response, clientVars, batchVars, zipVars, indexVars,
                   conns>>

\* lines 57-73: _build_file_list returns, the snapshot is stored and
\* returned, and the with statement releases the lock
WalkEnds(t) ==
    /\ threads[t].pc = "walking"
    /\ \E walk \in WalkOrders(TreeOf(shared)) :
         LET got == GetCachedFileList(dir_cache, "base_dir", threads[t].current_time,
                                      threads[t].dir_mtime, walk, TRUE)
         IN  /\ dir_cache' = got.cache
             /\ threads' = [threads EXCEPT ![t].pc = "serialize",
                                           ![t].current_time = 0,
                                           ![t].dir_mtime = None,
                                           ![t].file_list = Some(got.data)]
    /\ lock' = 0
    /\ UNCHANGED <<healthVars, managerVars, shared, now, request, response, clientVars, batchVars, zipVars, indexVars,
                   walks, conns>>

\* a build that raises with the lock never released
WalkRaisesHolding(t) ==
    /\ threads[t].pc = "walking"
    /\ threads' = [threads EXCEPT ![t].pc = "failed", ![t].current_time = 0,
                                  ![t].dir_mtime = None]
    /\ walks' = [walks EXCEPT ![Len(walks)].raised = TRUE]
    /\ UNCHANGED <<healthVars, managerVars, serverVars, clientVars, batchVars, zipVars, indexVars, lock, conns>>

\* line 57: _build_file_list raises; the with statement releases the lock
\* and the exception leaves _get_cached_file_list
WalkRaises(t) ==
    /\ threads[t].pc = "walking"
    /\ threads' = [threads EXCEPT ![t].pc = "failed", ![t].current_time = 0,
                                  ![t].dir_mtime = None]
    /\ walks' = [walks EXCEPT ![Len(walks)].raised = TRUE]
    /\ lock' = 0
    /\ UNCHANGED <<healthVars, managerVars, serverVars, clientVars, batchVars, zipVars, indexVars, conns>>

\* lines 165-193 of _handle_file_list: json.dumps, the ETag, gzip.compress
Serialize(t) ==
    /\ threads[t].pc = "serialize"
    /\ threads' = [threads EXCEPT ![t].pc = "write"]
    /\ UNCHANGED <<healthVars, managerVars, serverVars, clientVars, batchVars, zipVars, indexVars, lock, walks, conns>>

\* lines 198-203: the headers and the body are written to the client
WriteResponse(t) ==
    /\ threads[t].pc = "write"
    /\ threads' = [threads EXCEPT ![t].pc = "done"]
    /\ UNCHANGED <<healthVars, managerVars, serverVars, clientVars, batchVars, zipVars, indexVars, lock, walks, conns>>

\* HTTPServerManager.clear_cache is called: line 423
ClearCacheCall ==
    /\ threads[Manager].pc = "idle"
    /\ threads' = [threads EXCEPT ![Manager].pc = "acquire"]
    /\ UNCHANGED <<healthVars, managerVars, serverVars, clientVars, batchVars, zipVars, indexVars, lock, walks, conns>>

\* line 424: _dir_cache.clear(), and the with statement releases the lock
ClearCache ==
    /\ threads[Manager].pc = "clearing"
    /\ dir_cache' = <<>>
    /\ threads' = [threads EXCEPT ![Manager].pc = "done"]
    /\ lock' = 0
    /\ UNCHANGED <<healthVars, managerVars, shared, now, request, response, clientVars, batchVars, zipVars, indexVars,
                   walks, conns>>

\* the TTL passes
TTLPasses ==
    /\ now < CacheTTL
    /\ now' = CacheTTL
    /\ UNCHANGED <<healthVars, managerVars, shared, dir_cache, request, response, clientVars, batchVars, zipVars,
                   indexVars, concVars>>

\* the steps of the threads whose call has begun
ThreadSteps ==
    \/ \E t \in ThreadIds : LockAcquire(t)
    \/ \E t \in HandlerIds, getmtime_ok \in BOOLEAN : Lookup(t, getmtime_ok)
    \/ \E t \in HandlerIds : WalkEnds(t)
    \/ \E t \in HandlerIds : WalkRaises(t)
    \/ \E t \in HandlerIds : Serialize(t)
    \/ \E t \in HandlerIds : WriteResponse(t)
    \/ ClearCache

LockNext ==
    \/ \E t \in HandlerIds : ListRequest(t)
    \/ ClearCacheCall
    \/ \E t \in ThreadIds : LockAcquire(t)
    \/ \E t \in HandlerIds, getmtime_ok \in BOOLEAN : Lookup(t, getmtime_ok)
    \/ \E t \in HandlerIds : WalkEnds(t)
    \/ \E t \in HandlerIds : WalkRaises(t)
    \/ \E t \in HandlerIds : Serialize(t)
    \/ \E t \in HandlerIds : WriteResponse(t)
    \/ ClearCache
    \/ TTLPasses

SpecLock == LockInit /\ [][LockNext]_vars

(* ------------- properties of the cache lock ---------------------------- *)
\* the snapshot of the root that a lookup at this moment would return
\* without a walk, the directory's mtime readable or not
ValidSnapshot(getmtime_ok) ==
    LET i == CacheIndex(dir_cache, "base_dir")
    IN  /\ i # 0
        /\ \/ now - dir_cache[i].timestamp < CacheTTL
           \/ getmtime_ok /\ dir_cache[i].dir_mtime = shared.dir_mtime

\* the lists a complete walk of the tree gives
CompleteLists == {BuildFileList(w, TRUE) : w \in WalkOrders(TreeOf(shared))}

\* thread t begins a tree walk in this step
WalkBegins(t) == threads[t].pc # "walking" /\ threads'[t].pc = "walking"

\* thread t leaves the lookup in this step
LookupLeaves(t) == threads[t].pc = "lookup" /\ threads'[t].pc # "lookup"

\* C26: callers of get_index for one root are serialized by the lock: walks
\* never overlap; a caller walks the tree only if, holding the lock, it finds
\* no valid snapshot, so callers that find none at once cause one walk, and
\* one that waited on the lock returns the snapshot the first built; no
\* caller returns, and the cache never holds, a partly built list.
C26_SingleRebuild ==
    /\ [][\A t \in HandlerIds :
            /\ WalkBegins(t) =>
                   /\ lock = t
                   /\ \A u \in HandlerIds : threads[u].pc # "walking"
                   /\ ~ValidSnapshot(threads'[t].dir_mtime # None)
            /\ (LookupLeaves(t) /\ ValidSnapshot(TRUE) /\ ValidSnapshot(FALSE)) =>
                   /\ walks' = walks
                   /\ threads'[t].file_list =
                          Some(dir_cache[CacheIndex(dir_cache, "base_dir")].data)]_vars
    /\ [](/\ Cardinality({t \in HandlerIds : threads[t].pc = "walking"}) <= 1
          /\ \A t \in HandlerIds :
                 threads[t].file_list # None => threads[t].file_list[1] \in CompleteLists
          /\ \A i \in DOMAIN dir_cache : dir_cache[i].data \in CompleteLists
          /\ \A i, j \in DOMAIN walks :
                 (i < j /\ walks[i].after_clear = walks[j].after_clear) =>
                     \/ walks[i].raised
                     \/ walks[j].at - walks[i].at >= CacheTTL)

\* both handlers asked while no snapshot existed; one walked, the other was
\* blocked on the lock meanwhile and returned the list the first had built
C26_Witness ==
    /\ Len(walks) = 1 /\ walks[1].by = 1 /\ ~walks[1].raised
    /\ threads[1].pc = "done" /\ threads[2].pc = "done"
    /\ threads[2].waited
    /\ threads[2].file_list = threads[1].file_list
    /\ threads[Manager].pc = "idle"

\* a thread is inside a call: waiting for the lock, holding it, or answering
InCall(t) == threads[t].pc \notin {"idle", "done", "failed"}

\* C27: the lock is held only inside _get_cached_file_list and clear_cache,
\* by one thread; it is released on every way out, also when the build
\* raises; no handler holds it while serializing, compressing or writing;
\* and the threads do not deadlock: while a thread waits for the lock, the
\* lock is free for it or its holder can go on and release it.
C27_LockScope ==
    /\ lock # 0 => threads[lock].pc \in {"lookup", "walking", "clearing"}
    /\ \A t \in ThreadIds :
           /\ threads[t].pc \in {"lookup", "walking", "clearing"} => lock = t
           /\ threads[t].pc \in {"serialize", "write"} =>
                  ENABLED (Serialize(t) \/ WriteResponse(t))
           /\ threads[t].pc = "acquire" =>
                  \/ lock = 0 /\ ENABLED LockAcquire(t)
                  \/ /\ lock # 0 /\ lock # t
                     /\ ENABLED (\/ ClearCache
                                 \/ WalkRaises(lock)
                                 \/ \E ok \in BOOLEAN : Lookup(lock, ok))

\* a build raised, and a handler blocked on the lock meanwhile has answered
C27_Witness ==
    /\ threads[1].pc = "failed"
    /\ threads[2].pc = "done" /\ threads[2].waited
    /\ threads[Manager].pc = "done" /\ threads[Manager].waited
    /\ lock = 0


(* ------------- client.py: the connection cache -------------------------- *)
\* the caches a client may hold when a call begins
CacheProbes ==
    {NoRecords,
     RecordSeen(NoRecords, GetCacheKey("10.0.0.1", "8000"), <<>>, 0),
     RecordUnresponsiveAlways(NoRecords, GetCacheKey("10.0.0.1", "8000"))}

\* the answers a list request gets here: a listing, an error status, a body
\* that is no JSON
HealthAnswers ==
    {r \in ListAnswers : /\ r.content_encoding = None
                         /\ r.status \in {200, 500}
                         /\ r.body[1] \in {JsonDumps(<<>>), JsonDumps(LongList(1, 0)), Garbage}}

\* a client with some connection cache, idle, and the shared file it may fetch
HealthInit ==
    /\ shared \in {f \in SharedStates : Len(f.content) = MaxFileSize /\ f.mtime = 0}
    /\ dir_cache = <<>> /\ now = 0 /\ request = None /\ response = None
    /\ ClientUnused
    /\ BatchUnused
    /\ ZipUnused /\ IndexUnused /\ ConcUnused /\ ManagerUnused
    /\ connection_cache \in CacheProbes

\* no call is running, and no download_file call has been made
BetweenLists == pc \in {"idle", "list_done", "list_raised"}

\* list_files(ip, port) is called; the answer its request will get
ListFilesCall(ip, port, transport, answer) ==
    /\ BetweenLists
    /\ calls < MaxCalls
    /\ calls' = calls + 1
    /\ call' = Some([op |-> "list_files", transport |-> transport,
                     key |-> GetCacheKey(ip, port)])
    /\ response' = Some(answer)
    /\ pc' = "list_get"
    /\ result' = None /\ lastError' = None /\ sent' = None /\ lastStatus' = None
    /\ stream' = <<>>
    /\ UNCHANGED <<healthVars, managerVars, batchVars, zipVars, concVars, indexVars, shared,
                   dir_cache, now, request, localFile, sidecar, retry_count, before, attempts,
                   connFailures, xfer, progress>>

\* client.py lines 348-356
GetConnectionHealth(ip, port) ==
    /\ BetweenLists
    /\ LET cache_key == GetCacheKey(ip, port)
           info == connection_cache[cache_key]
       IN  result' = IF info # None
                     THEN Some([responsive |-> Some(info[1].responsive),
                                age |-> Some(now - info[1].last_seen)])
                     ELSE Some([responsive |-> None, age |-> None])
    /\ UNCHANGED <<healthVars, managerVars, serverVars, batchVars, zipVars, concVars, indexVars,
                   localFile, sidecar, call, pc, retry_count, stream, calls, before, attempts,
                   connFailures, lastError, sent, lastStatus, xfer, progress>>

\* client.py lines 358-361
ClearConnectionCache ==
    /\ BetweenLists
    /\ connection_cache' = NoRecords
    /\ UNCHANGED <<managerVars, serverVars, clientVars, batchVars, zipVars, concVars, indexVars>>

HealthNext ==
    \/ \E e \in Endpoints, transport \in {"none", "Timeout", "ConnectTimeout", "ConnectionError"},
          answer \in HealthAnswers : ListFilesCall(e[1], e[2], transport, answer)
    \/ ListFilesGet
    \/ ListFilesDecode
    \/ \E e \in Endpoints : GetConnectionHealth(e[1], e[2])
    \/ ClearConnectionCache
    \/ ClientNext

SpecHealth == HealthInit /\ [][HealthNext]_vars

(* ------------- properties of the connection cache ----------------------- *)
\* what list_files returns, from the transport's behaviour and the answer
\* alone (None: an exception leaves it)
ListFilesReturns(transport, r) ==
    LET failure(exc) ==
            LET i == FirstHandler(ListFilesHandlers, exc)
            IN  IF i = 0 THEN None
                ELSE Some([success |-> FALSE, message |-> ListFilesMessages[i],
                           detail |-> None])
        parse == ListFilesParse(r.content_encoding = Some("gzip"), HttpContent(r)[1])
    IN  IF transport # "none" THEN failure(transport)
        ELSE IF HttpContent(r) = None THEN failure("ContentDecodingError")
        ELSE IF r.status >= 400 THEN failure("HTTPError")
        ELSE IF parse.raised # None THEN failure(parse.raised[1])
        ELSE IF parse.value # None
             THEN Some([success |-> TRUE, message |-> "", detail |-> parse.value])
        ELSE Some([success |-> FALSE, message |-> parse.returned[1], detail |-> None])

\* a list_files call has ended
ListReturned == pc \in {"list_done", "list_raised"} /\ call # None /\ call[1].op = "list_files"

\* a list_files call ends in this step
ListReturns == pc \in {"list_get", "list_decode"} /\ pc' \in {"list_done", "list_raised"}

\* a download_file call is running or begins in this step
Downloading == pc \in {"attempt", "stream"} \/ pc' = "attempt"

\* this step creates or changes the record of the endpoint
Writes(key) ==
    /\ connection_cache'[key] # connection_cache[key]
    /\ connection_cache'[key] # None

\* C34: the connection cache is advisory.  Whatever the cache holds when it
\* is called, list_files sends the same request and returns what the
\* transport and the answer determine; download_file neither reads nor
\* changes the cache; and a record is written only by list_files, for the
\* endpoint it was called with: responsive = True when the list was parsed,
\* responsive = False in the connection-error handler and only on a record
\* that existed.
C34_AdvisoryCache ==
    /\ [][ListReturns =>
            /\ result' = ListFilesReturns(call[1].transport, response[1])
            /\ sent' = Some([method |-> "GET", key |-> call[1].key, path |-> "/api/files"])]_vars
    /\ [][Downloading => connection_cache' = connection_cache]_vars
    /\ [][\A key \in EndpointKeys :
             Writes(key) =>
                /\ pc \in {"list_get", "list_decode"}
                /\ key = call[1].key
                /\ \/ /\ connection_cache'[key][1].responsive
                      /\ result' # None /\ result'[1].success
                      /\ connection_cache'[key][1].file_count = Len(result'[1].detail[1])
                   \/ /\ ~connection_cache'[key][1].responsive
                      /\ connection_cache[key] # None
                      /\ lastError' = Some("ConnectionError")
                      /\ connection_cache'[key] =
                             Some([connection_cache[key][1] EXCEPT !.responsive = FALSE])]_vars

\* list_files met a connection error for an endpoint it had listed before
C34_Witness ==
    /\ ListReturned
    /\ calls = 2
    /\ lastError = Some("ConnectionError")
    /\ connection_cache[call[1].key] # None
    /\ ~connection_cache[call[1].key][1].responsive
    /\ connection_cache[call[1].key][1].file_count = 1

(* ------------- server.py: HTTPServerManager ----------------------------- *)
\* most server objects created in one behaviour
MaxServers == 3
\* most requests a server is handling at once
MaxInflight == 2

\* lines 381-387: the manager after __init__; no call is running
ManagerInit ==
    /\ shared \in {f \in SharedStates : f.mtime = 0 /\ f.content = <<>>}
    /\ dir_cache = <<>> /\ now = 0 /\ request = None /\ response = None
    /\ ClientUnused
    /\ BatchUnused
    /\ ZipUnused /\ IndexUnused /\ ConcUnused /\ HealthUnused
    /\ manager = [httpd |-> None, server_thread |-> None, is_running |-> FALSE,
                  mpc |-> "idle", returned |-> None]
    /\ servers = <<>>

\* lines 389-405, start_server.  bind_ok: the constructor binds and listens
\* (it raises OSError when the port is in use or the address is not
\* available); thread_ok: Thread.start() succeeds (it raises RuntimeError
\* when no thread can be started)
StartServer(bind_ok, thread_ok) ==
    /\ manager.mpc = "idle"
    /\ Len(servers) < MaxServers
    /\ IF ~bind_ok
       THEN /\ manager' = [manager EXCEPT !.returned = Some([op |-> "start", ok |-> FALSE])]
            /\ UNCHANGED servers
       ELSE LET id == Len(servers) + 1
            IN  /\ servers' = Append(servers, [listening |-> TRUE, serving |-> thread_ok,
                                              inflight |-> 0])
                /\ manager' = [manager EXCEPT
                                  !.httpd = Some(id),
                                  !.is_running = TRUE,
                                  !.server_thread = Some(id),
                                  !.returned = Some([op |-> "start", ok |-> thread_ok])]
    /\ UNCHANGED <<healthVars, serverVars, clientVars, batchVars, zipVars, indexVars, concVars>>

\* serve_forever accepts a connection; process_request hands it to the pool
RequestArrives(id) ==
    /\ id \in DOMAIN servers
    /\ servers[id].listening /\ servers[id].serving
    /\ servers[id].inflight < MaxInflight
    /\ servers' = [servers EXCEPT ![id].inflight = @ + 1]
    /\ UNCHANGED <<healthVars, serverVars, clientVars, batchVars, zipVars, indexVars, concVars,
                   manager>>

\* process_request_thread returns
HandlerFinishes(id) ==
    /\ id \in DOMAIN servers
    /\ servers[id].inflight > 0
    /\ servers' = [servers EXCEPT ![id].inflight = @ - 1]
    /\ UNCHANGED <<healthVars, serverVars, clientVars, batchVars, zipVars, indexVars, concVars,
                   manager>>

\* lines 407-408 and 419: stop_server is called; it returns False at once, or
\* calls httpd.shutdown()
StopServer ==
    /\ manager.mpc = "idle"
    /\ IF manager.httpd # None /\ manager.is_running
       THEN manager' = [manager EXCEPT !.mpc = "shutdown", !.returned = None]
       ELSE manager' = [manager EXCEPT !.returned = Some([op |-> "stop", ok |-> FALSE])]
    /\ UNCHANGED <<healthVars, serverVars, clientVars, batchVars, zipVars, indexVars, concVars,
                   servers>>

\* lines 408-409: serve_forever sees the request and leaves its loop, which
\* ends the wait of shutdown(); server_close() closes the listening socket.
\* shutdown() waits for ever when serve_forever was never entered
StopLoopExits ==
    /\ manager.mpc = "shutdown"
    /\ servers[manager.httpd[1]].serving
    /\ servers' = [servers EXCEPT ![manager.httpd[1]].serving = FALSE,
                                  ![manager.httpd[1]].listening = FALSE]
    /\ manager' = [manager EXCEPT !.mpc = "drain"]
    /\ UNCHANGED <<healthVars, serverVars, clientVars, batchVars, zipVars, indexVars, concVars>>

\* lines 411-418: executor.shutdown(wait=True) has waited for the handlers;
\* the fields are reset, the thread joined, True returned
StopReturns ==
    /\ manager.mpc = "drain"
    /\ servers[manager.httpd[1]].inflight = 0
    /\ manager' = [httpd |-> None, server_thread |-> None, is_running |-> FALSE,
                   mpc |-> "idle", returned |-> Some([op |-> "stop", ok |-> TRUE])]
    /\ UNCHANGED <<healthVars, serverVars, clientVars, batchVars, zipVars, indexVars, concVars,
                   servers>>

ManagerNext ==
    \/ \E bind_ok, thread_ok \in BOOLEAN : StartServer(bind_ok, thread_ok)
    \/ \E id \in 1..MaxServers : RequestArrives(id)
    \/ \E id \in 1..MaxServers : HandlerFinishes(id)
    \/ StopServer
    \/ StopLoopExits
    \/ StopReturns

SpecManager == ManagerInit /\ [][ManagerNext]_vars

(* ------------- properties of HTTPServerManager -------------------------- *)
\* a start_server call returns in this step
StartReturns ==
    /\ manager.mpc = "idle"
    /\ manager' # manager
    /\ manager'.returned # None /\ manager'.returned[1].op = "start"

\* a stop_server call returns in this step
StopEnds ==
    /\ manager' # manager
    /\ manager'.mpc = "idle"
    /\ manager'.returned # None /\ manager'.returned[1].op = "stop"

\* C39: between calls is_running is true exactly when a server object is
\* held; stop_server on a stopped manager returns False and changes nothing;
\* a start_server that fails leaves is_running and httpd as they were; and
\* stop_server returns True only once no handler of the server is running.
C39_ServerLifecycle ==
    /\ [](manager.mpc = "idle" => (manager.is_running <=> manager.httpd # None))
    /\ [][(StopEnds /\ manager.mpc = "idle") =>
             /\ ~manager'.returned[1].ok
             /\ manager' = [manager EXCEPT !.returned = manager'.returned]
             /\ servers' = servers]_vars
    /\ [][(StartReturns /\ ~manager'.returned[1].ok) =>
             /\ manager'.is_running = manager.is_running
             /\ manager'.httpd = manager.httpd]_vars
    /\ [][(StopEnds /\ manager.mpc # "idle") =>
             /\ manager'.returned[1].ok
             /\ servers[manager.httpd[1]].inflight = 0
             /\ ~servers[manager.httpd[1]].listening]_vars

(* ------------- download_file: the adaptive chunk size ------------------ *)
KB == 1024

MinChunk == 32 * KB
MaxChunk == 8 * MB
LowSpeed == 100 * KB
HighSpeed == 10 * MB

Max(a, b) == IF a > b THEN a ELSE b

\* client.py lines 264-271
CalculateOptimalChunkSize(file_size) ==
    IF file_size < MB THEN 64 * KB
    ELSE IF file_size < 100 * MB THEN MB
    ELSE 4 * MB

\* the adaptation without its limits
AdaptChunkSizeUnclamped(current_chunk_size, speed_bps) ==
    IF speed_bps < LowSpeed THEN current_chunk_size \div 2
    ELSE IF speed_bps > HighSpeed THEN current_chunk_size * 2
    ELSE current_chunk_size

\* client.py lines 273-281
AdaptChunkSize(current_chunk_size, speed_bps) ==
    IF speed_bps < LowSpeed THEN Max(MinChunk, current_chunk_size \div 2)
    ELSE IF speed_bps > HighSpeed THEN Min(MaxChunk, current_chunk_size * 2)
    ELSE current_chunk_size

\* total sizes on both sides of the two tier limits
TotalSizes == {MB - 1, MB, 100 * MB - 1, 100 * MB}

\* speeds (bytes per second) on both sides of the two thresholds
SpeedProbes == {LowSpeed - 1, LowSpeed, HighSpeed, HighSpeed + 1}

\* chunk sizes of the interval, powers of two or not
ChunkProbes == {MinChunk, MinChunk + 1, 2 * MinChunk - 1, 48 * KB, 64 * KB, MB,
                4 * MB, 4 * MB + 1, MaxChunk - 1, MaxChunk}

\* lines 133-136 and 147: the response headers were read; no byte is written
ChunkInit ==
    /\ shared \in {f \in SharedStates : f.content # <<>> /\ f.mtime = 0}
    /\ dir_cache = <<>> /\ now = 0 /\ request = None /\ response = None
    /\ localFile = None /\ sidecar = None /\ call = None /\ pc = "stream"
    /\ retry_count = 0 /\ stream = <<>> /\ result = None /\ calls = 0
    /\ before = None /\ attempts = 0 /\ connFailures = 0 /\ lastError = None
    /\ sent = None /\ lastStatus = None /\ progress = None
    /\ \E total_size \in TotalSizes :
          xfer = Some([total_size |-> total_size,
                       iter_chunk |-> CalculateOptimalChunkSize(total_size),
                       chunk_size |-> CalculateOptimalChunkSize(total_size),
                       downloaded |-> 0, speed |-> None, previous |-> None])
    /\ BatchUnused
    /\ ZipUnused /\ IndexUnused /\ ConcUnused /\ HealthUnused /\ ManagerUnused

\* lines 149-159: iter_content, created with the initial chunk size, yields
\* the next chunk; past ten chunk sizes the chunk size is adapted to the
\* speed measured, unless no time has elapsed
ChunkReceived(speed, elapsed) ==
    /\ pc = "stream"
    /\ xfer # None
    /\ xfer[1].downloaded < xfer[1].total_size
    /\ LET t == xfer[1]
           downloaded == t.downloaded + Min(t.iter_chunk, t.total_size - t.downloaded)
       IN  xfer' = Some(IF downloaded > t.chunk_size * 10 /\ elapsed
                        THEN [t EXCEPT !.downloaded = downloaded,
                                       !.chunk_size = AdaptChunkSize(t.chunk_size, speed),
                                       !.speed = Some(speed),
                                       !.previous = Some(t.chunk_size)]
                        ELSE [t EXCEPT !.downloaded = downloaded,
                                       !.speed = None, !.previous = None])
    /\ UNCHANGED <<healthVars, managerVars, serverVars, batchVars, zipVars, indexVars, concVars, localFile, sidecar,
                   call, pc, retry_count, stream, result, calls, before, attempts,
                   connFailures, lastError, sent, lastStatus, progress>>

ChunkNext == \E speed \in SpeedProbes, elapsed \in BOOLEAN : ChunkReceived(speed, elapsed)

SpecChunk == ChunkInit /\ [][ChunkNext]_vars

ChunkRange == MinChunk..MaxChunk

\* the last chunk received led to an adaptation
Adapted == xfer[1].speed # None

\* C33 as stated: the chunk size is doubled above 10 MB/s, halved below
\* 100 KB/s and otherwise kept, and it stays within [32 KB, 8 MB].
C33_DoublesHalves ==
    /\ Adapted =>
          xfer[1].chunk_size =
              IF xfer[1].speed[1] > HighSpeed THEN xfer[1].previous[1] * 2
              ELSE IF xfer[1].speed[1] < LowSpeed THEN xfer[1].previous[1] \div 2
              ELSE xfer[1].previous[1]
    /\ xfer[1].chunk_size \in ChunkRange

\* C33, amended: the chunk size is doubled above 10 MB/s but never beyond
\* 8 MB, halved below 100 KB/s but never below 32 KB, and otherwise kept; for
\* every current size in [32 KB, 8 MB] the next size is in [32 KB, 8 MB]; a
\* transfer starts at 64 KB, 1 MB or 4 MB (total size < 1 MB, < 100 MB, else)
\* and its chunk size stays in that interval whatever the adaptations.
C33_AdaptiveChunkSize ==
    /\ Adapted =>
          xfer[1].chunk_size =
              IF xfer[1].speed[1] > HighSpeed THEN Min(8 * MB, xfer[1].previous[1] * 2)
              ELSE IF xfer[1].speed[1] < LowSpeed THEN Max(32 * KB, xfer[1].previous[1] \div 2)
              ELSE xfer[1].previous[1]
    /\ \A current \in ChunkProbes, speed \in SpeedProbes :
          AdaptChunkSize(current, speed) \in ChunkRange
    /\ xfer[1].iter_chunk = IF xfer[1].total_size < MB THEN 64 * KB
                            ELSE IF xfer[1].total_size < 100 * MB THEN MB
                            ELSE 4 * MB
    /\ xfer[1].chunk_size \in ChunkRange

\* a chunk size already at 8 MB met a speed above 10 MB/s
C33_Witness ==
    /\ Adapted
    /\ xfer[1].speed[1] > HighSpeed
    /\ xfer[1].previous = Some(MaxChunk)

=============================================================================
